---- MODULE Spec2Model ----
(***************************************************************************)
(* The control core of the incubator: the five control loops run by        *)
(* BaseLoop.run as asyncio tasks, the ControlManager that gates, stops and *)
(* persists them, the DHT22 read path, the state file and the DataLogger.  *)
(*                                                                         *)
(* Scheduling: one asyncio event loop. A coroutine runs without            *)
(* interleaving between two awaits, so every action below is the code      *)
(* between two suspension points of one coroutine, or one synchronous      *)
(* manager call.  Task.cancel() marks the task (cancel_req); the task's    *)
(* next step is then the delivery of CancelledError at its await.          *)
(*                                                                         *)
(* The loops share nothing but the manager's flags, which the manager      *)
(* alone writes, so Spec follows one task at a time (focus) against every  *)
(* manager operation; the other tasks exist, stay unscheduled and are      *)
(* cancelled by stop().                                                    *)
(*                                                                         *)
(* Units: temperatures in 1/100 degree C, humidity in %, O2 in vol%, CO2   *)
(* in ppm, times in seconds.  A timestamp is kept as its age (seconds      *)
(* since it was taken), saturating at AgeCap.                              *)
(***************************************************************************)
EXTENDS Integers, Sequences, FiniteSets, TLC

(* Python's None and the "NC" marker, kept apart from every reading. *)
None == -1
NC == -2

(* A value of the state file that float() cannot convert (a JSON string    *)
(* that is no number, or null).                                            *)
NotNumeric == -3

Loops == {"temperature", "humidity", "o2", "co2", "air_pump"}
Tasks == Loops \cup {"logging"}
Relays == {"heater_relay", "humidifier_relay", "argon_valve_relay",
           "vent_relay", "second_co2_relay", "motor"}

RelaysOf(l) ==
    CASE l = "temperature" -> {"heater_relay"}
      [] l = "humidity"    -> {"humidifier_relay"}
      [] l = "o2"          -> {"argon_valve_relay"}
      [] l = "co2"         -> {"vent_relay", "second_co2_relay"}
      [] l = "air_pump"    -> {"motor"}

(* ------------------------------------------------------------------ *)
(* Program constants                                                  *)
(* ------------------------------------------------------------------ *)
DEFAULT_TEMP_SETPOINT == 3700
DEFAULT_HUMIDITY_SETPOINT == 60
DEFAULT_O2_SETPOINT == 5
DEFAULT_CO2_SETPOINT == 1000
HUMIDITY_HYSTERESIS == 4
TEMP_PID_P == 5
TEMP_PID_I_INV == 10
TEMP_PID_D == 1
PID_OUTPUT_LIMIT == 10000
OUTPUT_THRESHOLD == 0
O2_COOLDOWN_S == 60
CO2_COOLDOWN_S == 15
PUMP_ON_DURATION_S == 1
PUMP_OFF_DURATION_S == 29
PUMP_CONTROL_INTERVAL_S == 1
DHT_RETRIES == 5
DHT_DELAY_SECONDS == 2

(* ------------------------------------------------------------------ *)
(* Bounds of the model                                                *)
(* ------------------------------------------------------------------ *)
MaxIntegral == 2
MaxWall == 3
AgeCap == 60

(* Inputs offered to the model. *)
TempReadings == {3680, 3720}
HumidityReadings == {57, 58, 60, 62, 63}
O2Readings == {4, 6}
CO2Readings == {900, 1100}
TimeSteps == {30}

VARIABLES
    focus,              \* the task Spec schedules
    manager_active,     \* ControlManager._manager_active
    incubator_running,  \* ControlManager.incubator_running
    enabled,            \* ControlManager.<loop>_enabled, by loop
    stop_pc,            \* position of ControlManager.stop()
    relay,              \* output level of each relay
    device,             \* RelayOutput._device is not None, by relay
    pc,                 \* position of each task
    is_running,         \* BaseLoop._is_running, by loop
    stop_event,         \* BaseLoop._stop_event, by loop
    cancel_req,         \* Task.cancel() requested and not yet delivered
    heater_on,          \* TemperatureLoop._heater_on
    current_temperature,\* TemperatureLoop._current_temperature
    pid,                \* TemperatureLoop.pid (integral, last input, last output)
    temp_step_error,    \* run() reported an exception of the last temperature step
    humidifier_on,      \* HumidityLoop._humidifier_on
    current_humidity,   \* HumidityLoop._current_humidity
    dht_device,         \* DHT22Sensor.dht_device is not None
    dht_last_humidity,  \* DHT22Sensor._last_humidity
    argon_valve_on,     \* O2Loop._argon_valve_on
    current_value,      \* O2Loop.current_value
    o2_last_age,        \* age of O2Loop._last_activation_time
    o2_step_age,        \* age of control_step's current_time (O2)
    o2_pulse_age,       \* time since a control_step last opened the argon valve
    vent_active,        \* CO2Loop.vent_active
    current_co2,        \* CO2Loop.current_co2
    co2_last_age,       \* age of CO2Loop._last_activation_time
    co2_step_age,       \* age of control_step's current_time (CO2)
    co2_last_seen,      \* control_step's last_activation_time, as its age then
    co2_pulse_age,      \* time since a control_step last opened the primary solenoid
    pump_is_on,         \* AirPumpControlLoop.pump_is_on
    cycle_age,          \* age of AirPumpControlLoop.last_cycle_start_time
    setpoint,           \* the four loops' setpoints, by key
    thresholds,         \* HumidityLoop._turn_on_threshold / _turn_off_threshold
    state_file,         \* the content of STATE_FILE_PATH
    proc,               \* the process: up, inside _save_state, or killed
    last_saved,         \* the document of the last _save_state that completed
    in_save,            \* the documents of the _save_state calls in progress
    db,               \* DataLogger._db is not None
    db_rows,            \* rows of the logs table (timestamps)
    csv_rows,           \* rows of local_data_log.csv (timestamps)
    returned,           \* timestamps of the log_data calls that returned
    wall,               \* time.time()
    sensor_multiplier,  \* CO2Sensor._multiplier
    sensor_sent,        \* commands written to the CO2 sensor since it was opened
    sensor_call,        \* the last _parse_ppm call: frame, multiplier, outcome
    setter_pc,          \* a request thread inside HumidityLoop's setpoint setter
    tunings,            \* the PID's gains Kp, Ki (as 1/Ki), Kd
    tick_age,           \* time since the air pump's last control step
    log_error,          \* the logging task has caught an exception
    stop_called,        \* BaseLoop.stop() was called on the loop's own, no cancel
    other_pc            \* position of a second run() task of the loop in focus

mgrVars == <<manager_active, incubator_running, enabled, stop_pc>>
relayVars == <<relay, device>>
taskVars == <<pc, is_running, stop_event, cancel_req>>
tempVars == <<heater_on, current_temperature, pid, temp_step_error>>
humVars == <<humidifier_on, current_humidity, dht_device, dht_last_humidity>>
o2Vars == <<argon_valve_on, current_value, o2_last_age, o2_step_age,
           o2_pulse_age>>
co2Vars == <<vent_active, current_co2, co2_last_age, co2_step_age, co2_last_seen,
            co2_pulse_age>>
pumpVars == <<pump_is_on, cycle_age, tick_age>>
setVars == <<setpoint, thresholds>>
fileVars == <<state_file, proc, last_saved, in_save>>
logVars == <<db, db_rows, csv_rows, returned, wall>>

(* What the manager's operations and the loops' steps leave alone. *)
sideVars == <<sensor_multiplier, sensor_sent, sensor_call, setter_pc,
              tunings, log_error, stop_called, other_pc>>

vars == <<focus, mgrVars, relayVars, taskVars, tempVars, humVars, o2Vars,
          co2Vars, pumpVars, setVars, fileVars, logVars, sideVars>>

(* ------------------------------------------------------------------ *)
(* Relays                                                             *)
(* ------------------------------------------------------------------ *)

(* RelayOutput.on: drives the pin when the device is open. *)
RelayOn(rel, dev, r) == IF dev[r] THEN [rel EXCEPT ![r] = TRUE] ELSE rel

(* RelayOutput.off: releases the pin when the device is open. *)
RelayOff(rel, dev, r) == IF dev[r] THEN [rel EXCEPT ![r] = FALSE] ELSE rel

(* RelayOutput.value: False when the device is closed. *)
RelayValue(rel, dev, r) == dev[r] /\ rel[r]

(* The air pump's relay driver: on(), off() and stop() switch the relay. *)
MotorOn(rel) == [rel EXCEPT !["motor"] = TRUE]
MotorOff(rel) == [rel EXCEPT !["motor"] = FALSE]
MotorStop(rel) == [rel EXCEPT !["motor"] = FALSE]

(* Time passing: an age grows by d and saturates; None stays None. *)
Older(age, d) == IF age = None THEN None
                 ELSE IF age + d > AgeCap THEN AgeCap ELSE age + d

(* BaseLoop._active *)
Active(l) == incubator_running /\ enabled[l]

(* ------------------------------------------------------------------ *)
(* The state file                                                     *)
(* ------------------------------------------------------------------ *)

(* The keys of the state document, in the order json.dump writes them. *)
Keys == <<"temp_setpoint", "humidity_setpoint", "o2_setpoint", "co2_setpoint",
          "incubator_running", "temperature_enabled", "humidity_enabled",
          "o2_enabled", "co2_enabled", "air_pump_enabled">>
NumKeys == Len(Keys)
KeySet == {Keys[i] : i \in 1..NumKeys}
SetpointKeys == {"temperature", "humidity", "o2", "co2"}

(* The dictionary _save_state's callers build from the attributes. *)
StateDoc(sp, inc, en) ==
    [k \in KeySet |->
        CASE k = "temp_setpoint"       -> sp["temperature"]
          [] k = "humidity_setpoint"   -> sp["humidity"]
          [] k = "o2_setpoint"         -> sp["o2"]
          [] k = "co2_setpoint"        -> sp["co2"]
          [] k = "incubator_running"   -> inc
          [] k = "temperature_enabled" -> en["temperature"]
          [] k = "humidity_enabled"    -> en["humidity"]
          [] k = "o2_enabled"          -> en["o2"]
          [] k = "co2_enabled"         -> en["co2"]
          [] k = "air_pump_enabled"    -> en["air_pump"]]

DefaultSetpoints ==
    [k \in SetpointKeys |->
        CASE k = "temperature" -> DEFAULT_TEMP_SETPOINT
          [] k = "humidity"    -> DEFAULT_HUMIDITY_SETPOINT
          [] k = "o2"          -> DEFAULT_O2_SETPOINT
          [] k = "co2"         -> DEFAULT_CO2_SETPOINT]

(* default_state of _load_state *)
DefaultState == StateDoc(DefaultSetpoints, FALSE, [l \in Loops |-> TRUE])

(* The file: absent, or an object with the keys `keys` and the values of  *)
(* `doc`, of which the part up to the key at position `written` has        *)
(* reached the disk; the closing brace comes with the last position.       *)
(* `excess` counts the characters that follow the document in the file.    *)
NoFile == [exists |-> FALSE, doc |-> DefaultState, keys |-> KeySet,
           written |-> 0, excess |-> 0]
FileOf(doc, n) == [exists |-> TRUE, doc |-> doc, keys |-> KeySet,
                   written |-> n, excess |-> 0]

(* A lenient parser, which json.load is not: it would hand back the keys   *)
(* of a truncated document that had reached the disk.                      *)
JsonLoadKeysLenient(f) == {Keys[i] : i \in 1..f.written} \cap f.keys

(* json.load: the keys of the parsed dictionary; a strict prefix of a      *)
(* document, or a document with characters behind it, is not JSON and      *)
(* raises JSONDecodeError (no keys, failed).                               *)
JsonLoadKeys(f) == IF f.written = NumKeys /\ f.excess = 0 THEN f.keys ELSE {}

(* Setters without validation. *)
SetterAcceptsAll(k, v) == TRUE

(* The setters' validation: which setpoint values are accepted. *)
SetterAccepts(k, v) ==
    CASE k = "temperature" -> TRUE
      [] k = "humidity"    -> v >= 0 /\ v <= 100
      [] k = "o2"          -> v >= 0 /\ v <= 100
      [] k = "co2"         -> v > 0

(* Thresholds without a deadband. *)
ThresholdsAtSetpoint(sp) == [on |-> sp, off |-> sp]

(* HumidityLoop's thresholds for a setpoint. *)
ThresholdsOf(sp) == [on  |-> sp - HUMIDITY_HYSTERESIS \div 2,
                     off |-> sp + HUMIDITY_HYSTERESIS \div 2]

(* A load that forces the incubator off whatever the file says. *)
LoadedStateForcedOff(f) ==
    IF f.exists /\ JsonLoadKeys(f) # {}
    THEN [k \in KeySet |-> IF k = "incubator_running" THEN FALSE
                           ELSE IF k \in JsonLoadKeys(f) THEN f.doc[k]
                           ELSE DefaultState[k]]
    ELSE DefaultState

(* _load_state: the dictionary handed to _apply_state_to_self. *)
LoadedState(f) ==
    IF f.exists /\ JsonLoadKeys(f) # {}
    THEN [k \in KeySet |-> IF k \in JsonLoadKeys(f) THEN f.doc[k]
                           ELSE DefaultState[k]]
    ELSE DefaultState

(* A setpoint setter: a rejected value is reported and ignored. *)
SetSetpoint(sp, k, v) == IF SetterAccepts(k, v) THEN [sp EXCEPT ![k] = v] ELSE sp

(* _apply_state_to_self, setpoints: the four setters, each keeping what   *)
(* the loop held (sp0) when it rejects the value.  A value float() cannot  *)
(* convert raises before the CO2 setter is reached: temperature, humidity  *)
(* and O2 are then set to their defaults and CO2 is left as it was.        *)
AppliedSetpoints(st, sp0) ==
    IF \E k \in {"temp_setpoint", "humidity_setpoint", "o2_setpoint",
                 "co2_setpoint"} : st[k] = NotNumeric
    THEN [DefaultSetpoints EXCEPT !["co2"] = sp0["co2"]]
    ELSE SetSetpoint(SetSetpoint(SetSetpoint(SetSetpoint(sp0,
             "temperature", st["temp_setpoint"]),
             "humidity", st["humidity_setpoint"]),
             "o2", st["o2_setpoint"]),
             "co2", st["co2_setpoint"])

(* Flags that stay as the constructor set them, whatever was loaded. *)
AppliedEnabledAllOn(st) == [l \in Loops |-> TRUE]

(* _apply_state_to_self, the enabled flags. *)
AppliedEnabled(st) ==
    [l \in Loops |->
        CASE l = "temperature" -> st["temperature_enabled"]
          [] l = "humidity"    -> st["humidity_enabled"]
          [] l = "o2"          -> st["o2_enabled"]
          [] l = "co2"         -> st["co2_enabled"]
          [] l = "air_pump"    -> st["air_pump_enabled"]]

(* No _save_state in progress. *)
NoSave == [first |-> DefaultState, second |-> DefaultState,
           second_open |-> FALSE]

RECURSIVE Digits(_)
Digits(n) == IF n < 10 THEN 1 ELSE 1 + Digits(n \div 10)

(* json.dump(state, f, indent=2) into a file opened at offset 0 that holds *)
(* the content f: the text of doc replaces the first characters of the     *)
(* file, and what the file held beyond the length of that text stays.  A   *)
(* line of the text is two spaces, the key in quotes, ": ", the value and  *)
(* ",\n" ("\n" for the last); true has 4 characters, false 5, a float its  *)
(* digits, the point and at least one decimal.                             *)
Overlay(doc, f) ==
    LET ValueLen(d, k) ==
            IF k = "temp_setpoint"
            THEN Digits(d[k] \div 100) + 1 + (IF d[k] % 10 = 0 THEN 1 ELSE 2)
            ELSE IF k \in {"humidity_setpoint", "o2_setpoint", "co2_setpoint"}
                 THEN Digits(d[k]) + 2
                 ELSE IF d[k] THEN 4 ELSE 5
        TextLen(d, n) ==
            LET T[i \in 0..NumKeys] ==
                    IF i = 0 THEN 2
                    ELSE T[i - 1] + 6 + Len(Keys[i]) + ValueLen(d, Keys[i])
                         + (IF i < NumKeys THEN 2 ELSE 1)
            IN  T[n]
        DocLen(d) == TextLen(d, NumKeys) + 1
        Held == IF ~f.exists \/ f.written = 0 THEN 0
                ELSE IF f.written = NumKeys THEN DocLen(f.doc) + f.excess
                ELSE TextLen(f.doc, f.written)
    IN  [exists |-> TRUE, doc |-> doc, keys |-> KeySet, written |-> NumKeys,
         excess |-> IF Held > DocLen(doc) THEN Held - DocLen(doc) ELSE 0]

(* _save_state: open(..., 'w') truncates the file, then the document is   *)
(* written; the caller is inside the save until the last key is out.       *)
SaveState(doc) ==
    /\ state_file' = FileOf(doc, 0)
    /\ proc' = "saving"
    /\ in_save' = [in_save EXCEPT !.first = doc]
    /\ UNCHANGED last_saved

(* json.dump and the close of the file: the whole document is on disk and *)
(* _save_state returns.  Until then what has reached the disk is decided   *)
(* only if the process is killed (Kill).                                   *)
SaveWrite ==
    /\ proc = "saving"
    /\ state_file' = Overlay(in_save.first, state_file)
    /\ proc' = "up"
    /\ last_saved' = in_save.first
    /\ in_save' = [in_save EXCEPT !.first = DefaultState]
    /\ UNCHANGED <<focus, sideVars, mgrVars, relayVars, taskVars, tempVars, humVars,
                   o2Vars, co2Vars, pumpVars, setVars, logVars>>

(* ------------------------------------------------------------------ *)
(* _ensure_actuator_off of each loop                                  *)
(* ------------------------------------------------------------------ *)

(* The gains the manager constructs the PID with; Ki = 1 / Ki_inv. *)
ManagerTunings == [Kp |-> TEMP_PID_P, Ki_inv |-> TEMP_PID_I_INV,
                   Kd |-> TEMP_PID_D]

(* Proportional gain only: Ki = 0 (no inverse) and Kd = 0. *)
ProportionalTunings == [Kp |-> TEMP_PID_P, Ki_inv |-> None, Kd |-> 0]

(* PID.reset() *)
PidReset == [integral |-> 0, last_input |-> None,
             has_output |-> FALSE, last_output |-> 0]

(* TemperatureLoop._ensure_actuator_off: the PID is reset only when the   *)
(* loop believed the heater on; the relay is released in both branches.    *)
TemperatureEnsureActuatorOff ==
    /\ relay' = RelayOff(relay, device, "heater_relay")
    /\ heater_on' = FALSE
    /\ pid' = IF heater_on THEN PidReset ELSE pid
    /\ UNCHANGED <<current_temperature, temp_step_error>>

(* HumidityLoop._ensure_actuator_off *)
HumidityEnsureActuatorOff ==
    /\ relay' = RelayOff(relay, device, "humidifier_relay")
    /\ humidifier_on' = FALSE
    /\ UNCHANGED <<current_humidity, dht_device, dht_last_humidity>>

(* O2Loop._ensure_actuator_off: acts only when _argon_valve_on is set. *)
O2EnsureOffRelay(rel, on) ==
    IF on THEN RelayOff(rel, device, "argon_valve_relay") ELSE rel

O2EnsureActuatorOffForgets ==
    /\ relay' = O2EnsureOffRelay(relay, argon_valve_on)
    /\ argon_valve_on' = FALSE
    /\ o2_last_age' = None
    /\ UNCHANGED <<current_value, o2_step_age, o2_pulse_age>>

O2EnsureActuatorOff ==
    /\ relay' = O2EnsureOffRelay(relay, argon_valve_on)
    /\ argon_valve_on' = FALSE
    /\ UNCHANGED <<current_value, o2_last_age, o2_step_age, o2_pulse_age>>

(* CO2Loop._ensure_actuator_off: the primary solenoid is released only    *)
(* when vent_active is set, the secondary when its relay reads on.         *)
CO2EnsureOffRelay(rel, va) ==
    LET r1 == IF va THEN RelayOff(rel, device, "vent_relay") ELSE rel
    IN  IF RelayValue(r1, device, "second_co2_relay")
        THEN RelayOff(r1, device, "second_co2_relay") ELSE r1

CO2EnsureActuatorOff ==
    /\ relay' = CO2EnsureOffRelay(relay, vent_active)
    /\ vent_active' = FALSE
    /\ UNCHANGED <<current_co2, co2_last_age, co2_step_age, co2_last_seen,
                   co2_pulse_age>>

(* AirPumpControlLoop._ensure_actuator_off: acts only when pump_is_on. *)
AirPumpEnsureActuatorOff ==
    /\ UNCHANGED tick_age
    /\ IF pump_is_on
       THEN /\ relay' = MotorOff(relay)
            /\ pump_is_on' = FALSE
            /\ cycle_age' = 0
       ELSE UNCHANGED <<relay, pump_is_on, cycle_age>>

(* AirPumpControlLoop.reset_control: unconditional. *)
AirPumpResetControl ==
    /\ relay' = MotorOff(relay)
    /\ pump_is_on' = FALSE
    /\ cycle_age' = 0
    /\ UNCHANGED tick_age

(* loop._ensure_actuator_off() for the loop named l. *)
EnsureActuatorOff(l) ==
    \/ /\ l = "temperature"
       /\ TemperatureEnsureActuatorOff
       /\ UNCHANGED <<humVars, o2Vars, co2Vars, pumpVars>>
    \/ /\ l = "humidity"
       /\ HumidityEnsureActuatorOff
       /\ UNCHANGED <<tempVars, o2Vars, co2Vars, pumpVars>>
    \/ /\ l = "o2"
       /\ O2EnsureActuatorOff
       /\ UNCHANGED <<tempVars, humVars, co2Vars, pumpVars>>
    \/ /\ l = "co2"
       /\ CO2EnsureActuatorOff
       /\ UNCHANGED <<tempVars, humVars, o2Vars, pumpVars>>
    \/ /\ l = "air_pump"
       /\ AirPumpEnsureActuatorOff
       /\ UNCHANGED <<tempVars, humVars, o2Vars, co2Vars>>

(* ------------------------------------------------------------------ *)
(* Construction                                                       *)
(* ------------------------------------------------------------------ *)

(* The state files a start can find: none, or a document of an earlier run. *)
InitialFiles ==
    {NoFile} \cup
    {FileOf(StateDoc(DefaultSetpoints, inc, [l \in Loops |-> TRUE]), NumKeys) :
        inc \in BOOLEAN}

(* State files written by another hand than _save_state: JSON objects     *)
(* holding all the keys or some of them, with setpoints inside the         *)
(* setters' domains, outside them, or not numbers at all.  The values      *)
(* under absent keys are never read; they differ from the defaults.        *)
ForeignFile(sp, ks) ==
    [exists |-> TRUE, doc |-> StateDoc(sp, TRUE, [l \in Loops |-> FALSE]),
     keys |-> ks, written |-> NumKeys, excess |-> 0]

ForeignFiles ==
    {ForeignFile([temperature |-> 9000, humidity |-> 101, o2 |-> 101,
                  co2 |-> 0], KeySet),
     ForeignFile([temperature |-> 3800, humidity |-> 70, o2 |-> 4,
                  co2 |-> 800],
                 {"humidity_setpoint", "incubator_running", "o2_enabled"}),
     ForeignFile([temperature |-> 3800, humidity |-> 70, o2 |-> NotNumeric,
                  co2 |-> 800],
                 {"temp_setpoint", "o2_setpoint", "co2_setpoint",
                  "co2_enabled"})}

(* ------------------------------------------------------------------ *)
(* CO2Sensor: frames are sequences of byte values                     *)
(* ------------------------------------------------------------------ *)

(* _parse_ppm raised ValueError. *)
ParseError == -4

(* readuntil timed out: no frame (a frame read ends with its newline). *)
Timeout == <<>>

(* The recorded commands of the connection: the first MaxSent. *)
MaxSent == 3

(* int(digits) of a string of decimal digits. *)
RECURSIVE IntOfDigits(_)
IntOfDigits(ds) ==
    IF ds = <<>> THEN 0
    ELSE IntOfDigits(SubSeq(ds, 1, Len(ds) - 1)) * 10 + (ds[Len(ds)] - 48)

(* raw.decode('ascii', errors='ignore'): bytes above 127 are dropped. *)
DecodeAscii(raw) == SelectSeq(raw, LAMBDA b : b < 128)

(* str.strip(): leading and trailing whitespace removed. *)
RECURSIVE Strip(_)
Strip(s) ==
    LET space == {9, 10, 11, 12, 13, 32}
    IN  IF s = <<>> THEN s
        ELSE IF s[1] \in space THEN Strip(Tail(s))
        ELSE IF s[Len(s)] \in space THEN Strip(SubSeq(s, 1, Len(s) - 1))
        ELSE s

ParsePpmUnscaled(raw, multiplier) ==
    IF Len(raw) = 7 /\ raw[1] = 254
    THEN raw[4] * 256 + raw[5]
    ELSE LET digits == SelectSeq(Strip(DecodeAscii(raw)),
                                  LAMBDA b : b \in 48..57)
         IN  IF digits = <<>> THEN ParseError
             ELSE IntOfDigits(digits)

(* CO2Sensor._parse_ppm(raw) with self._multiplier = multiplier: the      *)
(* value returned, or ParseError.                                          *)
ParsePpm(raw, multiplier) ==
    IF Len(raw) = 7 /\ raw[1] = 254
    THEN raw[4] * 256 + raw[5]
    ELSE LET digits == SelectSeq(Strip(DecodeAscii(raw)),
                                  LAMBDA b : b \in 48..57)
         IN  IF digits = <<>> THEN ParseError
             ELSE IntOfDigits(digits) * multiplier

(* The five decimal digits of n, as ASCII. *)
FiveDigits(n) ==
    <<48 + ((n \div 10000) % 10), 48 + ((n \div 1000) % 10),
      48 + ((n \div 100) % 10), 48 + ((n \div 10) % 10), 48 + (n % 10)>>

(* The sensor's ASCII reply to the read command, b' Z 00473\r\n' for 473. *)
AsciiFrame(p) == <<32, 90, 32>> \o FiveDigits(p) \o <<13, 10>>

(* A 7-byte binary frame: 0xFE, two bytes, high, low, two bytes. *)
BinaryFrame(high, low, fill) == <<254, fill, fill, high, low, fill, fill>>

(* The sensor's reply to the multiplier query, b' . 00010\r\n' for 10. *)
MultiplierReply(m) == <<32, 46, 32>> \o FiveDigits(m) \o <<13, 10>>

(* Inputs offered to the sensor. *)
Multipliers == {1, 10, 100}
PpmValues == {0, 1, 9, 10, 99, 100, 473, 999, 1000, 9999, 10000, 12345,
              65535, 65536, 99999}
FrameBytes == {0, 1, 49, 255}
NoDigitFrames == {<<10>>, <<13, 10>>, <<32, 90, 32, 13, 10>>,
                  <<63, 13, 10>>, <<254, 13, 10>>,
                  <<32, 90, 32, 63, 63, 13, 10>>, <<255, 177, 13, 10>>}
Frames ==
    {AsciiFrame(p) : p \in PpmValues}
      \cup {BinaryFrame(h, l, f) : h \in FrameBytes, l \in FrameBytes,
                                   f \in {0, 49}}
      \cup NoDigitFrames
MultiplierReplies == {MultiplierReply(m) : m \in Multipliers \cup {0}}

(* No read_ppm call yet: no frame parsed, no attempt made. *)
NoCall == [raw |-> <<>>, multiplier |-> 0, result |-> None,
           attempt |-> 0, reopens |-> 0, outcome |-> "none"]

(* The attempts of one read_ppm call: `for attempt in range(3)`. *)
READ_ATTEMPTS == 3

(* serial_asyncio.open_serial_connection raises: the port cannot be opened. *)
OpenFails == <<None>>

(* CO2Sensor.__init__. *)
SensorConstruct ==
    /\ sensor_multiplier = 1
    /\ sensor_sent = <<>>
    /\ sensor_call = NoCall

(* The multiplier query of __aenter__ on the reply factor_raw.  Iterating *)
(* bytes yields ints, so `ch.isdigit()` raises AttributeError on the first *)
(* byte of any reply; the handler at line 82 catches it, as it catches the *)
(* timeout.                                                                *)
QueryMultiplier(factor_raw) ==
    IF factor_raw = Timeout THEN 1
    ELSE IF Len(factor_raw) > 0 THEN 1
    ELSE 1

(* The commands __aenter__ writes (init_cmd is None): the multiplier      *)
(* query, then the polling mode.                                           *)
OpenCommands == <<".", "K 2">>

(* CO2Sensor.__aenter__ on a closed connection, the sensor answering the  *)
(* multiplier query with reply (or not at all).                            *)
SensorOpen(reply) ==
    /\ proc = "up"
    /\ sensor_sent = <<>>
    /\ sensor_call.outcome # "running"
    /\ sensor_multiplier' = QueryMultiplier(reply)
    /\ sensor_sent' = OpenCommands
    /\ UNCHANGED <<focus, sensor_call, setter_pc, tunings, log_error, stop_called, other_pc, mgrVars, relayVars, taskVars, tempVars,
                   humVars, o2Vars, co2Vars, pumpVars, setVars, fileVars,
                   logVars>>

(* CO2Sensor.__aexit__. *)
SensorClose ==
    /\ proc = "up"
    /\ sensor_sent # <<>>
    /\ sensor_call.outcome # "running"
    /\ sensor_sent' = <<>>
    /\ UNCHANGED <<focus, sensor_multiplier, sensor_call, setter_pc, tunings,
                   log_error, stop_called, other_pc, mgrVars,
                   relayVars,
                   taskVars, tempVars, humVars, o2Vars, co2Vars, pumpVars,
                   setVars, fileVars, logVars>>

(* One attempt of CO2Sensor.read_ppm, the first of a call when no call is *)
(* running.  With the connection closed the attempt does __aexit__ and     *)
(* __aenter__ first; reply is the sensor's answer to the multiplier query, *)
(* or OpenFails when the port cannot be opened: the exception ends the     *)
(* attempt and the connection stays closed.  Otherwise the read command is *)
(* written and the frame raw (or a timeout) handed to _parse_ppm; on an    *)
(* open connection no reply is consulted.  The                             *)
(* call returns the first value parsed and raises after READ_ATTEMPTS      *)
(* attempts without one.                                                   *)
SensorReadAttempt(reply, raw) ==
    /\ proc = "up"
    /\ sensor_sent # <<>> => reply = Timeout
    /\ LET running == sensor_call.outcome = "running"
           n == IF running THEN sensor_call.attempt ELSE 0
           k == IF running THEN sensor_call.reopens ELSE 0
           reopened == sensor_sent = <<>>
           open == ~reopened \/ reply # OpenFails
           m == IF reopened /\ open THEN QueryMultiplier(reply)
                ELSE sensor_multiplier
           sent == IF reopened /\ open THEN OpenCommands ELSE sensor_sent
           parsed == open /\ raw # Timeout
           got == parsed /\ ParsePpm(raw, m) # ParseError
           progress == [attempt |-> n + 1,
                        reopens |-> IF reopened THEN k + 1 ELSE k,
                        outcome |-> IF got THEN "value"
                                    ELSE IF n + 1 = READ_ATTEMPTS
                                    THEN "failure" ELSE "running"]
       IN  /\ sensor_multiplier' = m
           /\ sensor_sent' = IF open /\ Len(sent) < MaxSent
                              THEN Append(sent, "Z") ELSE sent
           /\ sensor_call' =
                [raw |-> IF parsed THEN raw ELSE sensor_call.raw,
                 multiplier |-> IF parsed THEN m ELSE sensor_call.multiplier,
                 result |-> IF parsed THEN ParsePpm(raw, m)
                            ELSE sensor_call.result,
                 attempt |-> progress.attempt,
                 reopens |-> progress.reopens,
                 outcome |-> progress.outcome]
    /\ UNCHANGED <<focus, setter_pc, tunings, log_error, stop_called, other_pc, mgrVars, relayVars,
                   taskVars, tempVars,
                   humVars, o2Vars, co2Vars, pumpVars, setVars, fileVars,
                   logVars>>

(* ControlManager.__init__ up to _load_state, on the file f. *)
Construct(f) ==
    /\ manager_active = FALSE
    /\ stop_pc = "idle"
    /\ incubator_running = LoadedState(f)["incubator_running"]
    /\ enabled = AppliedEnabled(LoadedState(f))
    /\ setpoint = AppliedSetpoints(LoadedState(f), DefaultSetpoints)
    /\ thresholds = ThresholdsOf(setpoint["humidity"])
    /\ relay = [r \in Relays |-> FALSE]
    /\ device = [r \in Relays |-> TRUE]
    /\ pc = [t \in Tasks |-> "none"]
    /\ is_running = [l \in Loops |-> FALSE]
    /\ stop_event = [l \in Loops |-> FALSE]
    /\ cancel_req = [t \in Tasks |-> FALSE]
    /\ heater_on = FALSE
    /\ \E s \in TempReadings :
         current_temperature = [sensor1 |-> s, sensor2 |-> s]
    /\ pid = PidReset
    /\ temp_step_error = FALSE
    /\ humidifier_on = FALSE
    /\ current_humidity = NC
    /\ dht_device = FALSE
    /\ dht_last_humidity = None
    /\ argon_valve_on = FALSE
    /\ current_value = NC
    /\ o2_last_age = None
    /\ o2_step_age = 0
    /\ o2_pulse_age = None
    /\ vent_active = FALSE
    /\ current_co2 = None
    /\ co2_last_age = None
    /\ co2_step_age = 0
    /\ co2_last_seen = None
    /\ co2_pulse_age = None
    /\ pump_is_on = FALSE
    /\ cycle_age = 0
    /\ tick_age = 0
    /\ db = FALSE
    /\ db_rows = {}
    /\ csv_rows = {}
    /\ returned = {}

(* The program constructed on one of the files fs. *)
InitOn(fs) ==
    /\ focus \in Tasks
    /\ \E f \in fs :
         /\ state_file = f
         /\ last_saved = f.doc
         /\ Construct(f)
    /\ proc = "up"
    /\ in_save = NoSave
    /\ wall = 0
    /\ setter_pc = "idle"
    /\ log_error = FALSE
    /\ stop_called = [l \in Loops |-> FALSE]
    /\ other_pc = "none"

Init ==
    /\ InitOn(InitialFiles)
    /\ SensorConstruct
    /\ tunings = ManagerTunings

(* ------------------------------------------------------------------ *)
(* ControlManager                                                     *)
(* ------------------------------------------------------------------ *)

(* ControlManager.start: the logger is initialised, the manager marked    *)
(* active and the six tasks created.                                       *)
Start ==
    /\ proc = "up"
    /\ ~manager_active
    /\ stop_pc # "gather"
    /\ manager_active' = TRUE
    /\ stop_pc' = "idle"
    /\ pc' = [t \in Tasks |-> "created"]
    /\ cancel_req' = [t \in Tasks |-> FALSE]
    /\ db' = TRUE
    /\ UNCHANGED <<focus, sideVars, incubator_running, enabled, relayVars, is_running,
                   stop_event, tempVars, humVars, o2Vars, co2Vars, pumpVars,
                   setVars, fileVars, db_rows, csv_rows, returned, wall>>

(* The relay commands of stop_incubator: heater, humidifier and argon     *)
(* valve off, the pump motor stopped; the CO2 solenoids are not touched.   *)
StopIncubatorRelays(rel) ==
    MotorStop(RelayOff(RelayOff(RelayOff(rel, device, "heater_relay"),
        device, "humidifier_relay"), device, "argon_valve_relay"))

(* ControlManager.start_incubator *)
StartIncubator ==
    /\ proc = "up"
    /\ manager_active
    /\ ~incubator_running
    /\ incubator_running' = TRUE
    /\ relay' =
         LET r1 == IF ~enabled["temperature"]
                   THEN RelayOff(relay, device, "heater_relay") ELSE relay
             r2 == IF ~enabled["humidity"]
                   THEN RelayOff(r1, device, "humidifier_relay") ELSE r1
         IN  IF ~enabled["o2"]
             THEN RelayOff(r2, device, "argon_valve_relay") ELSE r2
    /\ UNCHANGED <<focus, sideVars, manager_active, enabled, stop_pc, device, taskVars,
                   tempVars, humVars, o2Vars, co2Vars, pumpVars, setVars,
                   fileVars, logVars>>

(* ControlManager.stop_incubator(force_off=False) *)
StopIncubator ==
    /\ proc = "up"
    /\ manager_active
    /\ incubator_running
    /\ incubator_running' = FALSE
    /\ relay' = StopIncubatorRelays(relay)
    /\ UNCHANGED <<focus, sideVars, manager_active, enabled, stop_pc, device, taskVars,
                   tempVars, humVars, o2Vars, co2Vars, pumpVars, setVars,
                   fileVars, logVars>>

(* BaseLoop.stop for the loops ControlManager.stop calls it on. *)
StoppedLoops == {"temperature", "humidity", "o2", "air_pump"}

(* ControlManager.stop up to the gather: stop_incubator(force_off=True),  *)
(* the stop() of the temperature, humidity, O2 and air pump loops (not     *)
(* of the CO2 loop), and cancel() on every task that is not done.          *)
StopBegin ==
    /\ proc = "up"
    /\ manager_active
    /\ manager_active' = FALSE
    /\ incubator_running' = FALSE
    /\ relay' = StopIncubatorRelays(relay)
    /\ is_running' = [l \in Loops |->
                        IF l \in StoppedLoops THEN FALSE ELSE is_running[l]]
    /\ stop_event' = [l \in Loops |->
                        IF l \in StoppedLoops /\ is_running[l] THEN TRUE
                        ELSE stop_event[l]]
    /\ heater_on' = FALSE
    /\ humidifier_on' = FALSE
    /\ argon_valve_on' = FALSE
    /\ cancel_req' = [t \in Tasks |-> pc[t] # "done"]
    /\ stop_pc' = "gather"
    /\ UNCHANGED <<focus, sideVars, enabled, device, pc, current_temperature, pid,
                   temp_step_error,
                   current_humidity, dht_device, dht_last_humidity,
                   current_value, o2_last_age, o2_step_age, o2_pulse_age,
                   co2Vars, pumpVars,
                   setVars, fileVars, logVars>>

(* ControlManager.stop after the gather: the heater, humidifier and argon *)
(* relays are closed (not the CO2 relays) and the logger is closed.        *)
StopFinish ==
    /\ proc = "up"
    /\ stop_pc = "gather"
    /\ \A t \in Tasks : pc[t] = "done"
    /\ device' = [r \in Relays |->
                    IF r \in {"heater_relay", "humidifier_relay",
                              "argon_valve_relay"} THEN FALSE ELSE device[r]]
    /\ db' = FALSE
    /\ stop_pc' = "returned"
    /\ UNCHANGED <<focus, sideVars, manager_active, incubator_running, enabled, relay,
                   taskVars, tempVars, humVars, o2Vars, co2Vars, pumpVars,
                   setVars, fileVars, db_rows, csv_rows, returned, wall>>

(* ControlManager.set_control_state(name, v): the flag, the forced OFF of *)
(* the loop when disabling (no branch for co2), and the save.              *)
SetControlState(name, v) ==
    /\ proc = "up"
    /\ enabled' = [enabled EXCEPT ![name] = v]
    /\ IF v \/ name = "co2"
       THEN UNCHANGED <<relay, tempVars, humVars, o2Vars, co2Vars, pumpVars>>
       ELSE IF name = "air_pump"
            THEN /\ AirPumpResetControl
                 /\ UNCHANGED <<tempVars, humVars, o2Vars, co2Vars>>
            ELSE EnsureActuatorOff(name)
    /\ SaveState(StateDoc(setpoint, incubator_running, enabled'))
    /\ UNCHANGED <<focus, sideVars, manager_active, incubator_running, stop_pc, device,
                   taskVars, setVars, logVars>>

(* The bodies offered to update_setpoints: a value or None (key absent)   *)
(* for each setpoint, among them a temperature of 90 degrees, a humidity   *)
(* and an O2 level above 100 and a CO2 level of 0.                         *)
UpdateInputs ==
    [temperature : {None, 9000}, humidity : {None, 70, 101},
     o2 : {None, 101}, co2 : {None, 0}]

(* The keys of a request that update_setpoints hands to a setter: present *)
(* and different from the loop's setpoint.                                 *)
Offered(input) ==
    {k \in SetpointKeys : input[k] # None /\ setpoint[k] # input[k]}

(* ControlManager.update_setpoints(input): each offered key goes through  *)
(* its setter and sets `changed`, accepted or not; the state is saved iff  *)
(* `changed` is set, and a request offering nothing does nothing.          *)
UpdateSetpoints(input) ==
    /\ proc = "up"
    /\ IF Offered(input) # {}
       THEN /\ setpoint' = [k \in SetpointKeys |->
                              IF k \in Offered(input)
                              THEN SetSetpoint(setpoint, k, input[k])[k]
                              ELSE setpoint[k]]
            /\ thresholds' = ThresholdsOf(setpoint'["humidity"])
            /\ SaveState(StateDoc(setpoint', incubator_running, enabled))
       ELSE UNCHANGED <<setVars, fileVars>>
    /\ UNCHANGED <<focus, sideVars, mgrVars, relayVars, taskVars, tempVars, humVars,
                   o2Vars, co2Vars, pumpVars, logVars>>

(* The process is killed.  Inside _save_state the file keeps what had     *)
(* reached the disk: any prefix of the document, the whole of it included. *)
Kill ==
    /\ proc # "dead"
    /\ proc' = "dead"
    /\ in_save' = NoSave
    /\ IF proc = "saving"
       THEN \E n \in 0..NumKeys :
              /\ state_file' = [state_file EXCEPT !.written = n]
              /\ last_saved' = IF n = NumKeys THEN state_file.doc
                               ELSE last_saved
       ELSE UNCHANGED <<state_file, last_saved>>
    /\ UNCHANGED <<focus, sideVars, mgrVars, relayVars, taskVars, tempVars, humVars,
                   o2Vars, co2Vars, pumpVars, setVars, logVars>>

(* The program is started again: ControlManager.__init__ with _load_state *)
(* on the file as the kill left it.                                        *)
Restart ==
    /\ proc = "dead"
    /\ proc' = "up"
    /\ manager_active' = FALSE
    /\ stop_pc' = "idle"
    /\ incubator_running' = LoadedState(state_file)["incubator_running"]
    /\ enabled' = AppliedEnabled(LoadedState(state_file))
    /\ setpoint' = AppliedSetpoints(LoadedState(state_file), DefaultSetpoints)
    /\ thresholds' = ThresholdsOf(setpoint'["humidity"])
    /\ relay' = [r \in Relays |-> FALSE]
    /\ device' = [r \in Relays |-> TRUE]
    /\ pc' = [t \in Tasks |-> "none"]
    /\ is_running' = [l \in Loops |-> FALSE]
    /\ stop_event' = [l \in Loops |-> FALSE]
    /\ cancel_req' = [t \in Tasks |-> FALSE]
    /\ heater_on' = FALSE
    /\ \E s \in TempReadings :
         current_temperature' = [sensor1 |-> s, sensor2 |-> s]
    /\ pid' = PidReset
    /\ temp_step_error' = FALSE
    /\ humidifier_on' = FALSE
    /\ current_humidity' = NC
    /\ dht_device' = FALSE
    /\ dht_last_humidity' = None
    /\ argon_valve_on' = FALSE
    /\ current_value' = NC
    /\ o2_last_age' = None
    /\ o2_step_age' = 0
    /\ o2_pulse_age' = None
    /\ vent_active' = FALSE
    /\ current_co2' = None
    /\ co2_last_age' = None
    /\ co2_step_age' = 0
    /\ co2_last_seen' = None
    /\ co2_pulse_age' = None
    /\ pump_is_on' = FALSE
    /\ cycle_age' = 0
    /\ tick_age' = 0
    /\ db' = FALSE
    /\ UNCHANGED <<focus, sideVars, state_file, last_saved, in_save, db_rows,
                   csv_rows, returned, wall>>

(* The control names the model toggles: the loop in focus. *)
ControlNames == Loops \cap {focus}

(* Time passes by d seconds: the timestamps of the loop in focus age; the  *)
(* current_time of a control_step exists only while the step is suspended. *)
Advance(d) ==
    /\ proc = "up"
    /\ focus \in {"o2", "co2", "air_pump"}
    /\ pc[focus] \notin {"none", "created", "done"}
    /\ o2_last_age' = IF focus = "o2" THEN Older(o2_last_age, d)
                      ELSE o2_last_age
    /\ o2_step_age' = IF pc["o2"] = "o2_pulse" THEN Older(o2_step_age, d)
                      ELSE o2_step_age
    /\ o2_pulse_age' = IF focus = "o2" THEN Older(o2_pulse_age, d)
                       ELSE o2_pulse_age
    /\ co2_last_age' = IF focus = "co2" THEN Older(co2_last_age, d)
                       ELSE co2_last_age
    /\ co2_step_age' = IF pc["co2"] \in {"co2_read", "co2_pulse1", "co2_gap",
                                         "co2_pulse2"}
                       THEN Older(co2_step_age, d) ELSE co2_step_age
    /\ co2_pulse_age' = IF focus = "co2" THEN Older(co2_pulse_age, d)
                        ELSE co2_pulse_age
    /\ cycle_age' = IF focus = "air_pump" THEN Older(cycle_age, d)
                    ELSE cycle_age
    /\ tick_age' = IF focus = "air_pump" THEN Older(tick_age, d)
                   ELSE tick_age
    /\ UNCHANGED <<focus, sideVars, mgrVars, relayVars, taskVars, tempVars, humVars,
                   argon_valve_on, current_value, vent_active, current_co2,
                   co2_last_seen,
                   pump_is_on, setVars, fileVars, logVars>>

(* ------------------------------------------------------------------ *)
(* BaseLoop.run                                                       *)
(* ------------------------------------------------------------------ *)

(* The task of loop l is the one scheduled and has no cancellation pending. *)
Runnable(l) == focus = l /\ proc = "up" /\ ~cancel_req[l]

(* run() is at the head of its while loop with _is_running true: entered, *)
(* back from the gated sleep, or back from the interval wait (timeout).    *)
AtLoopTop(l) ==
    /\ Runnable(l)
    /\ \/ pc[l] = "created" /\ ~is_running[l]
       \/ pc[l] = "gate_sleep" /\ is_running[l]
       \/ pc[l] = "wait" /\ is_running[l] /\ ~stop_event[l]

(* run() entry: _is_running = True and _stop_event.clear(). *)
EnterRun(l) ==
    /\ is_running' = [is_running EXCEPT ![l] = TRUE]
    /\ stop_event' = IF pc[l] = "created"
                     THEN [stop_event EXCEPT ![l] = FALSE] ELSE stop_event
    /\ UNCHANGED cancel_req

(* run() called while _is_running is still set: returns at once. *)
RunAlready(l) ==
    /\ Runnable(l)
    /\ pc[l] = "created"
    /\ is_running[l]
    /\ pc' = [pc EXCEPT ![l] = "done"]
    /\ UNCHANGED <<focus, sideVars, mgrVars, relayVars, is_running, stop_event,
                   cancel_req, tempVars, humVars, o2Vars, co2Vars, pumpVars,
                   setVars, fileVars, logVars>>

(* The gate is closed: _ensure_actuator_off, then sleep one interval. *)
GateClosed(l) ==
    /\ AtLoopTop(l)
    /\ ~Active(l)
    /\ EnsureActuatorOff(l)
    /\ pc' = [pc EXCEPT ![l] = "gate_sleep"]
    /\ EnterRun(l)
    /\ UNCHANGED <<focus, sideVars, mgrVars, device, setVars, fileVars, logVars>>

(* The interval wait ends because _stop_event is set: break, and          *)
(* _is_running = False on the way out.                                     *)
WaitStopped(l) ==
    /\ focus = l
    /\ proc = "up"
    /\ pc[l] = "wait"
    /\ stop_event[l]
    /\ pc' = [pc EXCEPT ![l] = "done"]
    /\ is_running' = [is_running EXCEPT ![l] = FALSE]
    /\ cancel_req' = [cancel_req EXCEPT ![l] = FALSE]
    /\ UNCHANGED <<focus, sideVars, mgrVars, relayVars, stop_event, tempVars, humVars,
                   o2Vars, co2Vars, pumpVars, setVars, fileVars, logVars>>

(* The while condition of run() read after the gated sleep with           *)
(* _is_running cleared: the loop is left and run() returns.                *)
RunEnds(l) ==
    /\ Runnable(l)
    /\ pc[l] = "gate_sleep"
    /\ ~is_running[l]
    /\ pc' = [pc EXCEPT ![l] = "done"]
    /\ UNCHANGED <<focus, sideVars, mgrVars, relayVars, is_running, stop_event,
                   cancel_req, tempVars, humVars, o2Vars, co2Vars, pumpVars,
                   setVars, fileVars, logVars>>

(* stop() of the temperature, humidity or O2 loop, called by itself while  *)
(* the loop's task exists: BaseLoop.stop() clears _is_running and sets     *)
(* _stop_event when _is_running is set and does nothing when it is not;    *)
(* the subclass then opens its relay if it believes it closed.             *)
LoopStop(l) ==
    /\ proc = "up"
    /\ focus = l
    /\ pc[l] \notin {"none", "done"}
    /\ ~cancel_req[l]
    /\ ~stop_called[l]
    /\ stop_called' = [stop_called EXCEPT ![l] = TRUE]
    /\ IF is_running[l]
       THEN /\ is_running' = [is_running EXCEPT ![l] = FALSE]
            /\ stop_event' = [stop_event EXCEPT ![l] = TRUE]
       ELSE UNCHANGED <<is_running, stop_event>>
    /\ relay' = IF l = "temperature" /\ heater_on
                THEN RelayOff(relay, device, "heater_relay")
                ELSE IF l = "humidity" /\ humidifier_on
                THEN RelayOff(relay, device, "humidifier_relay")
                ELSE IF l = "o2" /\ argon_valve_on
                THEN RelayOff(relay, device, "argon_valve_relay")
                ELSE relay
    /\ heater_on' = (heater_on /\ l # "temperature")
    /\ humidifier_on' = (humidifier_on /\ l # "humidity")
    /\ argon_valve_on' = (argon_valve_on /\ l # "o2")
    /\ UNCHANGED <<focus, sensor_multiplier, sensor_sent, sensor_call,
                   setter_pc, tunings, log_error, other_pc, mgrVars, device, pc,
                   cancel_req, current_temperature, pid, temp_step_error,
                   current_humidity, dht_device, dht_last_humidity,
                   current_value, o2_last_age, o2_step_age, o2_pulse_age,
                   co2Vars, pumpVars, setVars, fileVars, logVars>>

(* run() of the loop l is called once more while the task of an earlier   *)
(* call exists: a second task, not yet run.                                *)
RunAgain(l) ==
    /\ proc = "up"
    /\ focus = l
    /\ pc[l] \notin {"none", "created"}
    /\ other_pc = "none"
    /\ other_pc' = "created"
    /\ UNCHANGED <<focus, sensor_multiplier, sensor_sent, sensor_call,
                   setter_pc, tunings, log_error, stop_called, mgrVars,
                   relayVars, taskVars, tempVars, humVars, o2Vars, co2Vars,
                   pumpVars, setVars, fileVars, logVars>>

(* The event loop turns to the other of the loop's two run() tasks: pc[l]  *)
(* is the position of the task the steps of run() apply to, other_pc that  *)
(* of the task left suspended.  The loop object, with _is_running and      *)
(* _stop_event, is shared by both.                                         *)
SwitchTask(l) ==
    /\ proc = "up"
    /\ focus = l
    /\ other_pc \notin {"none", "done"}
    /\ pc[l] # "created"
    /\ pc' = [pc EXCEPT ![l] = other_pc]
    /\ other_pc' = pc[l]
    /\ UNCHANGED <<focus, sensor_multiplier, sensor_sent, sensor_call,
                   setter_pc, tunings, log_error, stop_called, mgrVars,
                   relayVars, is_running, stop_event, cancel_req, tempVars,
                   humVars, o2Vars, co2Vars, pumpVars, setVars, fileVars,
                   logVars>>

(* The tasks in the order start() creates them and stop() cancels them;   *)
(* the event loop wakes cancelled tasks in that order.                     *)
TaskOrder == <<"temperature", "humidity", "o2", "co2", "air_pump", "logging">>

(* CancelledError delivered to task t at its await.  Before the first     *)
(* step and at the gated sleep (outside the try) it leaves run() as it     *)
(* is; inside control_step and at the interval wait the handler breaks     *)
(* and _is_running is cleared.  No path switches a relay.  The locals of   *)
(* a suspended control_step go with it.                                    *)
Cancelled(t) ==
    /\ proc = "up"
    /\ cancel_req[t]
    /\ \A i, j \in 1..Len(TaskOrder) :
         TaskOrder[j] = t /\ i < j => ~cancel_req[TaskOrder[i]]
    /\ pc[t] # "done"
    /\ pc' = [pc EXCEPT ![t] = "done"]
    /\ cancel_req' = [cancel_req EXCEPT ![t] = FALSE]
    /\ is_running' = IF t \in Loops /\ pc[t] \notin {"created", "gate_sleep"}
                     THEN [is_running EXCEPT ![t] = FALSE] ELSE is_running
    /\ o2_step_age' = IF t = "o2" THEN 0 ELSE o2_step_age
    /\ co2_step_age' = IF t = "co2" THEN 0 ELSE co2_step_age
    /\ co2_last_seen' = IF t = "co2" THEN None ELSE co2_last_seen
    /\ UNCHANGED <<focus, sideVars, mgrVars, relayVars, stop_event, tempVars, humVars,
                   argon_valve_on, current_value, o2_last_age, o2_pulse_age,
                   vent_active, current_co2, co2_last_age, co2_pulse_age,
                   pumpVars, setVars, fileVars, logVars>>

(* ------------------------------------------------------------------ *)
(* TemperatureLoop                                                    *)
(* ------------------------------------------------------------------ *)

Clamp(x) == IF x > PID_OUTPUT_LIMIT THEN PID_OUTPUT_LIMIT
            ELSE IF x < -PID_OUTPUT_LIMIT THEN -PID_OUTPUT_LIMIT ELSE x

(* PID.__call__ on input x with setpoint sp; fresh tells whether a sample *)
(* time has passed since the last call (dt is taken as one sample time).   *)
PidCall(k, p, sp, x, fresh) ==
    IF ~fresh /\ p.has_output
    THEN [pid |-> p, output |-> p.last_output]
    ELSE LET error == sp - x
             integ == IF k.Ki_inv = None THEN p.integral
                      ELSE Clamp(p.integral + error \div k.Ki_inv)
             d_input == IF p.last_input = None THEN 0 ELSE x - p.last_input
             out == Clamp(k.Kp * error + integ - k.Kd * d_input)
         IN  [pid |-> [integral |-> integ, last_input |-> x,
                       has_output |-> TRUE, last_output |-> out],
              output |-> out]

(* The value control_step regulates on: the mean of the two channels. *)
ControlTemp(s1, s2) == (s1 + s2) \div 2

(* TemperatureLoop.control_step with the channel readings s1, s2 (None: a  *)
(* failed channel).  _read_sensor reports a failed channel through         *)
(* self._logger, which the class does not have: the AttributeError leaves  *)
(* control_step before anything is stored or switched, and run() logs it.  *)
TemperatureControlStep(s1, s2, fresh) ==
    /\ AtLoopTop("temperature")
    /\ Active("temperature")
    /\ IF s1 = None \/ s2 = None
       THEN /\ temp_step_error' = TRUE
            /\ UNCHANGED <<relay, heater_on, current_temperature, pid>>
       ELSE LET r == PidCall(tunings, pid, setpoint["temperature"],
                             ControlTemp(s1, s2), fresh)
                should_be_on == r.output > OUTPUT_THRESHOLD
            IN  /\ r.pid.integral <= MaxIntegral
                /\ r.pid.integral >= -MaxIntegral
                /\ current_temperature' = [sensor1 |-> s1, sensor2 |-> s2]
                /\ pid' = r.pid
                /\ heater_on' = should_be_on
                /\ temp_step_error' = FALSE
                /\ relay' = IF should_be_on /\ ~heater_on
                            THEN RelayOn(relay, device, "heater_relay")
                            ELSE IF ~should_be_on /\ heater_on
                            THEN RelayOff(relay, device, "heater_relay")
                            ELSE relay
    /\ pc' = [pc EXCEPT !["temperature"] = "wait"]
    /\ EnterRun("temperature")
    /\ UNCHANGED <<focus, sideVars, mgrVars, device, humVars, o2Vars, co2Vars, pumpVars,
                   setVars, fileVars, logVars>>

TemperatureNext ==
    \E s1, s2 \in TempReadings \cup {None}, fresh \in BOOLEAN :
        TemperatureControlStep(s1, s2, fresh)

(* ------------------------------------------------------------------ *)
(* DHT22Sensor and HumidityLoop                                       *)
(* ------------------------------------------------------------------ *)

(* DHT22Sensor._initialize_hardware succeeding on its background thread. *)
DhtInitialize ==
    /\ proc = "up"
    /\ focus = "humidity"
    /\ ~dht_device
    /\ dht_device' = TRUE
    /\ UNCHANGED <<focus, sideVars, mgrVars, relayVars, taskVars, tempVars,
                   humidifier_on, current_humidity, dht_last_humidity, o2Vars,
                   co2Vars, pumpVars, setVars, fileVars, logVars>>

(* DHT22Sensor.read: hw is what the hardware gives within the retries     *)
(* (None: every retry failed).  The humidity returned is _last_humidity,   *)
(* renewed only by a successful read: a failed read, or a device not       *)
(* initialised, returns the value of the last success.                     *)
DhtRead(dev, last, hw) == IF dev /\ hw # None THEN hw ELSE last

(* HumidityLoop.control_step *)
HumidityControlStep(hw) ==
    /\ AtLoopTop("humidity")
    /\ Active("humidity")
    /\ LET hum == DhtRead(dht_device, dht_last_humidity, hw)
           cur == IF hum # None THEN hum ELSE NC
           should_be_on == IF humidifier_on
                           THEN ~(cur >= thresholds.off)
                           ELSE cur <= thresholds.on
       IN  /\ dht_last_humidity' = hum
           /\ current_humidity' = cur
           /\ IF cur = NC
              THEN /\ relay' = RelayOff(relay, device, "humidifier_relay")
                   /\ humidifier_on' = FALSE
              ELSE /\ humidifier_on' = should_be_on
                   /\ relay' = IF should_be_on /\ ~humidifier_on
                               THEN RelayOn(relay, device, "humidifier_relay")
                               ELSE IF ~should_be_on /\ humidifier_on
                               THEN RelayOff(relay, device, "humidifier_relay")
                               ELSE relay
    /\ pc' = [pc EXCEPT !["humidity"] = "wait"]
    /\ EnterRun("humidity")
    /\ UNCHANGED <<focus, sideVars, mgrVars, device, tempVars, dht_device, o2Vars,
                   co2Vars, pumpVars, setVars, fileVars, logVars>>

(* HumidityLoop's setpoint setter called on a request thread (the        *)
(* /api/setpoints view calls update_setpoints on its own thread, the       *)
(* control step runs on the event loop's thread).  No lock is held, so the *)
(* interpreter may switch threads between two statements: the setter is    *)
(* three steps.  The first is the conversion, the range test and the       *)
(* assignment of _setpoint; a rejected value ends the call.                *)
HumiditySetterAssign(v) ==
    /\ proc = "up"
    /\ setter_pc = "idle"
    /\ IF SetterAccepts("humidity", v)
       THEN /\ setpoint' = [setpoint EXCEPT !["humidity"] = v]
            /\ setter_pc' = "turn_on"
       ELSE UNCHANGED <<setpoint, setter_pc>>
    /\ UNCHANGED <<focus, sensor_multiplier, sensor_sent, sensor_call,
                   tunings, log_error, stop_called, other_pc, mgrVars, relayVars, taskVars, tempVars, humVars, o2Vars,
                   co2Vars, pumpVars, thresholds, fileVars, logVars>>

(* The setter's second statement: _turn_on_threshold. *)
HumiditySetterTurnOn ==
    /\ proc = "up"
    /\ setter_pc = "turn_on"
    /\ thresholds' = [thresholds EXCEPT
                        !.on = ThresholdsOf(setpoint["humidity"]).on]
    /\ setter_pc' = "turn_off"
    /\ UNCHANGED <<focus, sensor_multiplier, sensor_sent, sensor_call,
                   tunings, log_error, stop_called, other_pc, mgrVars, relayVars, taskVars, tempVars, humVars, o2Vars,
                   co2Vars, pumpVars, setpoint, fileVars, logVars>>

(* The setter's third statement: _turn_off_threshold. *)
HumiditySetterTurnOff ==
    /\ proc = "up"
    /\ setter_pc = "turn_off"
    /\ thresholds' = [thresholds EXCEPT
                        !.off = ThresholdsOf(setpoint["humidity"]).off]
    /\ setter_pc' = "idle"
    /\ UNCHANGED <<focus, sensor_multiplier, sensor_sent, sensor_call,
                   tunings, log_error, stop_called, other_pc, mgrVars, relayVars, taskVars, tempVars, humVars, o2Vars,
                   co2Vars, pumpVars, setpoint, fileVars, logVars>>

(* ------------------------------------------------------------------ *)
(* O2Loop                                                             *)
(* ------------------------------------------------------------------ *)

(* run() after control_step has returned: _ensure_actuator_off if the     *)
(* gate closed meanwhile.                                                  *)
O2AfterStep(rel, on) ==
    IF Active("o2") THEN [relay |-> rel, on |-> on]
    ELSE [relay |-> O2EnsureOffRelay(rel, on), on |-> FALSE]

(* O2Loop.control_step up to its end or to the sleep inside the pulse;    *)
(* v is the reading (NC: not connected).                                   *)
O2ControlStep(v) ==
    /\ AtLoopTop("o2")
    /\ Active("o2")
    /\ current_value' = v
    /\ LET should_be_on == v > setpoint["o2"]
       IN  IF v = NC
           THEN /\ relay' = O2EnsureOffRelay(relay, argon_valve_on)
                /\ argon_valve_on' = FALSE
                /\ pc' = [pc EXCEPT !["o2"] = "wait"]
                /\ UNCHANGED <<o2_step_age, o2_pulse_age>>
           ELSE IF should_be_on
                   /\ (o2_last_age = None \/ o2_last_age >= O2_COOLDOWN_S)
           THEN /\ relay' = RelayOn(relay, device, "argon_valve_relay")
                /\ argon_valve_on' = TRUE
                /\ o2_step_age' = 0
                /\ o2_pulse_age' = 0
                /\ pc' = [pc EXCEPT !["o2"] = "o2_pulse"]
           ELSE IF ~should_be_on /\ argon_valve_on
           THEN /\ relay' = RelayOff(relay, device, "argon_valve_relay")
                /\ argon_valve_on' = FALSE
                /\ pc' = [pc EXCEPT !["o2"] = "wait"]
                /\ UNCHANGED <<o2_step_age, o2_pulse_age>>
           ELSE /\ pc' = [pc EXCEPT !["o2"] = "wait"]
                /\ UNCHANGED <<relay, argon_valve_on, o2_step_age,
                               o2_pulse_age>>
    /\ EnterRun("o2")
    /\ UNCHANGED <<focus, sideVars, mgrVars, device, tempVars, humVars, o2_last_age,
                   co2Vars, pumpVars, setVars, fileVars, logVars>>

(* The sleep of the argon pulse is over: the relay is released, the flag  *)
(* _argon_valve_on stays set, the activation time is the step's start.     *)
O2PulseEnd ==
    /\ Runnable("o2")
    /\ pc["o2"] = "o2_pulse"
    /\ LET r == O2AfterStep(RelayOff(relay, device, "argon_valve_relay"),
                            argon_valve_on)
       IN  /\ relay' = r.relay
           /\ argon_valve_on' = r.on
    /\ o2_last_age' = o2_step_age
    /\ o2_step_age' = 0
    /\ pc' = [pc EXCEPT !["o2"] = "wait"]
    /\ UNCHANGED <<focus, sideVars, mgrVars, device, is_running, stop_event, cancel_req,
                   tempVars, humVars, current_value, o2_pulse_age, co2Vars,
                   pumpVars, setVars, fileVars, logVars>>

(* ------------------------------------------------------------------ *)
(* CO2Loop                                                            *)
(* ------------------------------------------------------------------ *)

(* run() after control_step has returned: _ensure_actuator_off if the     *)
(* gate is closed.                                                         *)
CO2AfterStep(rel, va) ==
    IF Active("co2") THEN [relay |-> rel, vent_active |-> va]
    ELSE [relay |-> CO2EnsureOffRelay(rel, va), vent_active |-> FALSE]

(* CO2Loop.control_step up to the sensor read: the activation time and    *)
(* the clock are taken before the read is awaited.                         *)
CO2ControlStep ==
    /\ AtLoopTop("co2")
    /\ Active("co2")
    /\ co2_last_seen' = co2_last_age
    /\ co2_step_age' = 0
    /\ pc' = [pc EXCEPT !["co2"] = "co2_read"]
    /\ EnterRun("co2")
    /\ UNCHANGED <<focus, sideVars, mgrVars, relayVars, tempVars, humVars, o2Vars,
                   vent_active, current_co2, co2_last_age, co2_pulse_age,
                   pumpVars, setVars, fileVars, logVars>>

(* read_ppm is back with v (None: it raised or gave no number).  A failed *)
(* read releases the primary solenoid only if vent_active is set; a low    *)
(* reading past the cooldown opens the primary solenoid.                   *)
CO2ReadDone(v) ==
    /\ Runnable("co2")
    /\ pc["co2"] = "co2_read"
    /\ current_co2' = v
    /\ IF v = None
       THEN LET r == CO2AfterStep(
                       IF vent_active
                       THEN RelayOff(relay, device, "vent_relay") ELSE relay,
                       FALSE)
            IN  /\ relay' = r.relay
                /\ vent_active' = r.vent_active
                /\ pc' = [pc EXCEPT !["co2"] = "wait"]
       ELSE IF v < setpoint["co2"] /\ ~vent_active
               /\ (co2_last_seen = None \/ co2_last_seen >= CO2_COOLDOWN_S)
       THEN /\ relay' = RelayOn(relay, device, "vent_relay")
            /\ pc' = [pc EXCEPT !["co2"] = "co2_pulse1"]
            /\ UNCHANGED vent_active
       ELSE LET r == CO2AfterStep(relay, vent_active)
            IN  /\ relay' = r.relay
                /\ vent_active' = r.vent_active
                /\ pc' = [pc EXCEPT !["co2"] = "wait"]
    /\ co2_step_age' = IF pc'["co2"] = "wait" THEN 0 ELSE co2_step_age
    /\ co2_last_seen' = IF pc'["co2"] = "wait" THEN None ELSE co2_last_seen
    /\ co2_pulse_age' = IF pc'["co2"] = "co2_pulse1" THEN 0 ELSE co2_pulse_age
    /\ UNCHANGED <<focus, sideVars, mgrVars, device, is_running, stop_event, cancel_req,
                   tempVars, humVars, o2Vars, co2_last_age, pumpVars, setVars,
                   fileVars, logVars>>

(* The primary pulse is over: the primary solenoid is released. *)
CO2PrimaryOff ==
    /\ Runnable("co2")
    /\ pc["co2"] = "co2_pulse1"
    /\ relay' = RelayOff(relay, device, "vent_relay")
    /\ pc' = [pc EXCEPT !["co2"] = "co2_gap"]
    /\ UNCHANGED <<focus, sideVars, mgrVars, device, is_running, stop_event, cancel_req,
                   tempVars, humVars, o2Vars, co2Vars, pumpVars, setVars,
                   fileVars, logVars>>

(* The one second between the pulses is over: the secondary solenoid is   *)
(* opened; the gate is not looked at.                                      *)
CO2SecondaryOn ==
    /\ Runnable("co2")
    /\ pc["co2"] = "co2_gap"
    /\ relay' = RelayOn(relay, device, "second_co2_relay")
    /\ pc' = [pc EXCEPT !["co2"] = "co2_pulse2"]
    /\ UNCHANGED <<focus, sideVars, mgrVars, device, is_running, stop_event, cancel_req,
                   tempVars, humVars, o2Vars, co2Vars, pumpVars, setVars,
                   fileVars, logVars>>

(* The secondary pulse is over: the solenoid is released and the          *)
(* activation time becomes the time the step started.                      *)
CO2SecondaryOff ==
    /\ Runnable("co2")
    /\ pc["co2"] = "co2_pulse2"
    /\ LET r == CO2AfterStep(RelayOff(relay, device, "second_co2_relay"),
                             vent_active)
       IN  /\ relay' = r.relay
           /\ vent_active' = r.vent_active
    /\ co2_last_age' = co2_step_age
    /\ co2_step_age' = 0
    /\ co2_last_seen' = None
    /\ pc' = [pc EXCEPT !["co2"] = "wait"]
    /\ UNCHANGED <<focus, sideVars, mgrVars, device, is_running, stop_event, cancel_req,
                   tempVars, humVars, o2Vars, current_co2, co2_pulse_age,
                   pumpVars, setVars, fileVars, logVars>>

(* ------------------------------------------------------------------ *)
(* AirPumpControlLoop                                                 *)
(* ------------------------------------------------------------------ *)

(* AirPumpControlLoop.control_step *)
AirPumpControlStep ==
    /\ AtLoopTop("air_pump")
    /\ Active("air_pump")
    /\ IF pump_is_on /\ cycle_age >= PUMP_ON_DURATION_S
       THEN /\ relay' = MotorOff(relay)
            /\ pump_is_on' = FALSE
            /\ cycle_age' = 0
       ELSE IF ~pump_is_on /\ cycle_age >= PUMP_OFF_DURATION_S
       THEN /\ relay' = MotorOn(relay)
            /\ pump_is_on' = TRUE
            /\ cycle_age' = 0
       ELSE UNCHANGED <<relay, pump_is_on, cycle_age>>
    /\ tick_age' = 0
    /\ pc' = [pc EXCEPT !["air_pump"] = "wait"]
    /\ EnterRun("air_pump")
    /\ UNCHANGED <<focus, sideVars, mgrVars, device, tempVars, humVars, o2Vars, co2Vars,
                   setVars, fileVars, logVars>>

(* ------------------------------------------------------------------ *)
(* DataLogger and the logging task                                    *)
(* ------------------------------------------------------------------ *)

(* is_offline: the placeholder always answers True. *)
IsOffline == TRUE

(* Sorted(S): the elements of a finite set of numbers in ascending order. *)
RECURSIVE Sorted(_)
Sorted(S) ==
    IF S = {} THEN <<>>
    ELSE LET m == CHOOSE x \in S : \A y \in S : x <= y
         IN  <<m>> \o Sorted(S \ {m})

(* DataLogger.get_data(start_time, end_time): the rows of the table in    *)
(* the range (None: no limit on that side), oldest first.                  *)
GetData(start_time, end_time) ==
    IF ~db THEN <<>>
    ELSE Sorted({ts \in db_rows :
                    /\ start_time = None \/ ts >= start_time
                    /\ end_time = None \/ ts <= end_time})

(* _logging_task: one pass, DataLogger.log_data and the sleep that        *)
(* follows.  Offline the sample goes to the CSV file only and log_data     *)
(* returns; online it is inserted, a second row under the same timestamp   *)
(* being refused by the primary key and the error swallowed.               *)
LogData ==
    /\ proc = "up"
    /\ focus = "logging"
    /\ ~cancel_req["logging"]
    /\ pc["logging"] \in {"created", "log_sleep"}
    /\ manager_active
    /\ IF IsOffline
       THEN /\ csv_rows' = csv_rows \cup {wall}
            /\ UNCHANGED db_rows
       ELSE /\ db_rows' = IF db THEN db_rows \cup {wall} ELSE db_rows
            /\ UNCHANGED csv_rows
    /\ returned' = returned \cup {wall}
    /\ pc' = [pc EXCEPT !["logging"] = "log_sleep"]
    /\ UNCHANGED <<focus, sideVars, mgrVars, relayVars, is_running, stop_event,
                   cancel_req, tempVars, humVars, o2Vars, co2Vars, pumpVars,
                   setVars, fileVars, db, wall>>

LogDataRaisesUncaught ==
    /\ proc = "up"
    /\ focus = "logging"
    /\ ~cancel_req["logging"]
    /\ pc["logging"] \in {"created", "log_sleep"}
    /\ manager_active
    /\ log_error' = TRUE
    /\ pc' = [pc EXCEPT !["logging"] = "done"]
    /\ UNCHANGED <<focus, sensor_multiplier, sensor_sent, sensor_call,
                   setter_pc, tunings, stop_called, other_pc, mgrVars, relayVars,
                   is_running,
                   stop_event, cancel_req, tempVars, humVars, o2Vars, co2Vars,
                   pumpVars, setVars, fileVars, logVars>>

(* _logging_task: one pass in which get_status or log_data raises.  The   *)
(* handler prints the error and, the manager being active, sleeps half an  *)
(* interval; the while loop goes on.                                       *)
LogDataRaises ==
    /\ proc = "up"
    /\ focus = "logging"
    /\ ~cancel_req["logging"]
    /\ pc["logging"] \in {"created", "log_sleep"}
    /\ manager_active
    /\ log_error' = TRUE
    /\ pc' = [pc EXCEPT !["logging"] = "log_sleep"]
    /\ UNCHANGED <<focus, sensor_multiplier, sensor_sent, sensor_call,
                   setter_pc, tunings, stop_called, other_pc, mgrVars, relayVars,
                   is_running,
                   stop_event, cancel_req, tempVars, humVars, o2Vars, co2Vars,
                   pumpVars, setVars, fileVars, logVars>>

(* time.time() moves on. *)
Tick ==
    /\ proc = "up"
    /\ focus = "logging"
    /\ wall < MaxWall
    /\ wall' = wall + 1
    /\ UNCHANGED <<focus, sideVars, mgrVars, relayVars, taskVars, tempVars, humVars,
                   o2Vars, co2Vars, pumpVars, setVars, fileVars, db, db_rows,
                   csv_rows, returned>>

ManagerNext ==
    \/ Start
    \/ StartIncubator
    \/ StopIncubator
    \/ StopBegin
    \/ StopFinish
    \/ \E name \in ControlNames, v \in BOOLEAN : SetControlState(name, v)
    \/ SaveWrite

(* The steps of BaseLoop.run common to the five loops, and cancellation. *)
LoopNext ==
    \/ \E l \in Loops : GateClosed(l)
    \/ \E l \in Loops : RunAlready(l)
    \/ \E l \in Loops : WaitStopped(l)
    \/ \E t \in Tasks : Cancelled(t)

(* Every step but SaveWrite is guarded by proc = "up": a save runs to its  *)
(* end before the next step of the program.  Only a restart reads the      *)
(* file, so the place of the write among the other steps is not observable. *)
Next ==
    \/ ManagerNext
    \/ LoopNext
    \/ TemperatureNext
    \/ DhtInitialize
    \/ \E hw \in HumidityReadings \cup {None} : HumidityControlStep(hw)
    \/ \E v \in O2Readings \cup {NC} : O2ControlStep(v)
    \/ O2PulseEnd
    \/ CO2ControlStep
    \/ \E v \in CO2Readings \cup {None} : CO2ReadDone(v)
    \/ CO2PrimaryOff
    \/ CO2SecondaryOn
    \/ CO2SecondaryOff
    \/ AirPumpControlStep
    \/ LogData
    \/ LogDataRaises
    \/ Tick
    \/ \E d \in TimeSteps : Advance(d)

Spec == Init /\ [][Next]_vars

(* The manager alone, with the process killed and started again at any   *)
(* point: the tasks are created and never scheduled.                       *)
InitPersist == Init /\ focus = "humidity"

NextPersist ==
    \/ Start
    \/ StartIncubator
    \/ StopIncubator
    \/ \E name \in ControlNames, v \in BOOLEAN : SetControlState(name, v)
    \/ \E input \in UpdateInputs : UpdateSetpoints(input)
    \/ SaveWrite
    \/ Kill
    \/ Restart

SpecPersist == InitPersist /\ [][NextPersist]_vars

(* The setpoints alone, on any file, one of an earlier run or a foreign    *)
(* one: requests to update_setpoints, their saves, kills and restarts.     *)
InitLoad ==
    /\ InitOn(InitialFiles \cup ForeignFiles)
    /\ focus = "humidity"
    /\ SensorConstruct
    /\ tunings = ManagerTunings

NextLoad ==
    \/ \E input \in UpdateInputs : UpdateSetpoints(input)
    \/ SaveWrite
    \/ Kill
    \/ Restart

SpecLoad == InitLoad /\ [][NextLoad]_vars

(* The CO2 sensor driver alone, its connection open: _parse_ppm is a     *)
(* function of the frame and of the stored multiplier, so the multiplier   *)
(* starts at any of the values the sensor family reports.                  *)
InitSensor ==
    /\ InitOn({NoFile})
    /\ focus = "co2"
    /\ sensor_multiplier \in Multipliers
    /\ sensor_sent = OpenCommands
    /\ sensor_call = NoCall
    /\ tunings = ManagerTunings

NextSensor ==
    \/ \E reply \in MultiplierReplies \cup {Timeout} : SensorOpen(reply)
    \/ SensorClose
    \/ \E reply \in {MultiplierReply(10), Timeout, OpenFails},
          raw \in Frames \cup {Timeout} : SensorReadAttempt(reply, raw)

SpecSensor == InitSensor /\ [][NextSensor]_vars

(* The temperature loop alone, its PID constructed with the manager's     *)
(* gains or with a proportional gain only (TemperatureLoop takes p, i, d   *)
(* as arguments).                                                          *)
InitTemp ==
    /\ InitOn(InitialFiles)
    /\ focus = "temperature"
    /\ SensorConstruct
    /\ tunings \in {ManagerTunings, ProportionalTunings}

NextTemp ==
    \/ Start
    \/ StartIncubator
    \/ StopIncubator
    \/ TemperatureNext
    \/ GateClosed("temperature")

SpecTemp == InitTemp /\ [][NextTemp]_vars

(* The air pump loop in real time, the gate open.  The interval wait of   *)
(* run() ends one control interval after the step; the step then runs as   *)
(* soon as the event loop is free.  The humidity loop's control_step reads *)
(* the DHT22 on the event loop's thread, and each failed attempt of that   *)
(* read but the last is followed by time.sleep(delay_seconds): the event   *)
(* loop is held for that long, once between two steps of the pump here.    *)
PumpIntervalElapses ==
    /\ focus = "air_pump"
    /\ tick_age = 0
    /\ Advance(PUMP_CONTROL_INTERVAL_S)

DhtReadBlocks(failed) ==
    /\ focus = "air_pump"
    /\ tick_age <= PUMP_CONTROL_INTERVAL_S
    /\ Advance(failed * DHT_DELAY_SECONDS)

PumpTick ==
    /\ pc["air_pump"] = "created" \/ tick_age >= PUMP_CONTROL_INTERVAL_S
    /\ AirPumpControlStep

InitPump == Init /\ focus = "air_pump"

NextPump ==
    \/ Start
    \/ StartIncubator
    \/ PumpTick
    \/ PumpIntervalElapses
    \/ \E failed \in 1..(DHT_RETRIES - 1) : DhtReadBlocks(failed)

SpecPump == InitPump /\ [][NextPump]_vars

(* The humidity loop on the event loop's thread against setpoint requests  *)
(* on a request thread.                                                    *)
SetterInputs == {50, 70, 101}

InitThreads == Init /\ focus = "humidity"

NextThreads ==
    \/ Start
    \/ StartIncubator
    \/ StopIncubator
    \/ DhtInitialize
    \/ \E hw \in HumidityReadings \cup {None} : HumidityControlStep(hw)
    \/ GateClosed("humidity")
    \/ \E v \in SetterInputs : HumiditySetterAssign(v)
    \/ HumiditySetterTurnOn
    \/ HumiditySetterTurnOff

SpecThreads == InitThreads /\ [][NextThreads]_vars

(* BaseLoop on its own: the temperature, humidity and O2 loops' tasks, and *)
(* stop() called on a loop without the cancellation that                   *)
(* ControlManager.stop adds.                                               *)
StoppableLoops == {"temperature", "humidity", "o2"}

InitStop == Init /\ focus \in StoppableLoops

NextStop ==
    \/ Start
    \/ StartIncubator
    \/ StopIncubator
    \/ TemperatureNext
    \/ DhtInitialize
    \/ \E hw \in HumidityReadings \cup {None} : HumidityControlStep(hw)
    \/ \E v \in O2Readings \cup {NC} : O2ControlStep(v)
    \/ O2PulseEnd
    \/ \E l \in StoppableLoops : GateClosed(l)
    \/ \E l \in StoppableLoops : WaitStopped(l)
    \/ \E l \in StoppableLoops : RunEnds(l)
    \/ \E l \in StoppableLoops : LoopStop(l)
    \/ \E d \in TimeSteps : Advance(d)

SpecStop == InitStop /\ [][NextStop]_vars

(* BaseLoop under repeated run() and stop() calls: two run() tasks of one  *)
(* loop.                                                                   *)
NextRuns ==
    \/ Start
    \/ StartIncubator
    \/ StopIncubator
    \/ TemperatureNext
    \/ DhtInitialize
    \/ \E hw \in HumidityReadings \cup {None} : HumidityControlStep(hw)
    \/ \E v \in O2Readings \cup {NC} : O2ControlStep(v)
    \/ O2PulseEnd
    \/ \E l \in StoppableLoops : GateClosed(l)
    \/ \E l \in StoppableLoops : WaitStopped(l)
    \/ \E l \in StoppableLoops : RunEnds(l)
    \/ \E l \in StoppableLoops : RunAlready(l)
    \/ \E l \in StoppableLoops : LoopStop(l)
    \/ \E l \in StoppableLoops : RunAgain(l)
    \/ \E l \in StoppableLoops : SwitchTask(l)

SpecRuns == InitStop /\ [][NextRuns]_vars

(* The O2 and CO2 loops under the operations that close and reopen their   *)
(* gate, in real time.                                                     *)
GateSeconds == {10, 30}

InitGate == Init /\ focus \in {"o2", "co2"}

NextGate ==
    \/ Start
    \/ StartIncubator
    \/ StopIncubator
    \/ \E name \in ControlNames, v \in BOOLEAN : SetControlState(name, v)
    \/ SaveWrite
    \/ \E l \in {"o2", "co2"} : GateClosed(l)
    \/ \E v \in O2Readings \cup {NC} : O2ControlStep(v)
    \/ O2PulseEnd
    \/ CO2ControlStep
    \/ \E v \in CO2Readings \cup {None} : CO2ReadDone(v)
    \/ CO2PrimaryOff
    \/ CO2SecondaryOn
    \/ CO2SecondaryOff
    \/ \E d \in GateSeconds : Advance(d)

SpecGate == InitGate /\ [][NextGate]_vars

(* Two request threads inside ControlManager: the first is the caller of   *)
(* the actions above; the second calls set_control_state while the first   *)
(* is inside _save_state, which takes no lock.                             *)
OtherSetControlState(name, v) ==
    /\ proc = "saving"
    /\ ~in_save.second_open
    /\ enabled' = [enabled EXCEPT ![name] = v]
    /\ IF v \/ name = "co2"
       THEN UNCHANGED <<relay, tempVars, humVars, o2Vars, co2Vars, pumpVars>>
       ELSE IF name = "air_pump"
            THEN /\ AirPumpResetControl
                 /\ UNCHANGED <<tempVars, humVars, o2Vars, co2Vars>>
            ELSE EnsureActuatorOff(name)
    /\ state_file' = FileOf(StateDoc(setpoint, incubator_running, enabled'), 0)
    /\ in_save' = [in_save EXCEPT
                     !.second = StateDoc(setpoint, incubator_running, enabled'),
                     !.second_open = TRUE]
    /\ UNCHANGED <<focus, sideVars, manager_active, incubator_running, stop_pc, device,
                   taskVars, setVars, proc, last_saved, logVars>>

(* json.dump and the close of the file in the second thread's _save_state. *)
OtherSaveWrite ==
    /\ proc # "dead"
    /\ in_save.second_open
    /\ state_file' = Overlay(in_save.second, state_file)
    /\ last_saved' = in_save.second
    /\ in_save' = [in_save EXCEPT !.second = DefaultState,
                                  !.second_open = FALSE]
    /\ UNCHANGED <<focus, sideVars, mgrVars, relayVars, taskVars, tempVars, humVars,
                   o2Vars, co2Vars, pumpVars, setVars, proc, logVars>>

NextSaves ==
    \/ Start
    \/ StartIncubator
    \/ StopIncubator
    \/ \E name \in ControlNames, v \in BOOLEAN : SetControlState(name, v)
    \/ \E input \in UpdateInputs : UpdateSetpoints(input)
    \/ SaveWrite
    \/ \E name \in ControlNames, v \in BOOLEAN : OtherSetControlState(name, v)
    \/ OtherSaveWrite

SpecSaves == InitPersist /\ [][NextSaves]_vars

(* The CO2 loop in real time, the gate open.  A read_ppm call lasts under  *)
(* a second when its first attempt answers and several seconds when it     *)
(* retries (three attempts, each with a 1.2 s timeout, 0.5 s apart); the    *)
(* interval wait and the pulses are counted in whole seconds.              *)
ReadSeconds == {1, 4}
WaitSeconds == {1, 5, 10}

CO2ReadElapses(d) ==
    /\ pc["co2"] = "co2_read"
    /\ co2_step_age = 0
    /\ Advance(d)

CO2WaitElapses(d) ==
    /\ pc["co2"] = "wait"
    /\ Advance(d)

InitCO2 == Init /\ focus = "co2"

NextCO2 ==
    \/ Start
    \/ StartIncubator
    \/ CO2ControlStep
    \/ \E v \in CO2Readings \cup {None} : CO2ReadDone(v)
    \/ CO2PrimaryOff
    \/ CO2SecondaryOn
    \/ CO2SecondaryOff
    \/ \E d \in ReadSeconds : CO2ReadElapses(d)
    \/ \E d \in WaitSeconds : CO2WaitElapses(d)

SpecCO2 == InitCO2 /\ [][NextCO2]_vars

(* ------------------------------------------------------------------ *)
(* Properties                                                         *)
(* ------------------------------------------------------------------ *)

(* The state the manager holds, as the document it would save. *)
AppliedState == StateDoc(setpoint, incubator_running, enabled)

(* ControlManager.get_status without its timestamp: the flags, the loops' *)
(* readings, setpoints and actuator beliefs.  A channel without a reading  *)
(* is shown as "NC"; nothing in it is derived from the tasks.              *)
GetStatus ==
    [incubator_running   |-> incubator_running,
     temperature_enabled |-> enabled["temperature"],
     humidity_enabled    |-> enabled["humidity"],
     o2_enabled          |-> enabled["o2"],
     co2_enabled         |-> enabled["co2"],
     air_pump_enabled    |-> enabled["air_pump"],
     temperature_sensor1 |-> IF current_temperature.sensor1 = None THEN NC
                             ELSE current_temperature.sensor1,
     temperature_sensor2 |-> IF current_temperature.sensor2 = None THEN NC
                             ELSE current_temperature.sensor2,
     temp_setpoint       |-> setpoint["temperature"],
     heater_on           |-> heater_on,
     humidity            |-> current_humidity,
     humidity_setpoint   |-> setpoint["humidity"],
     humidifier_on       |-> humidifier_on,
     o2                  |-> current_value,
     o2_setpoint         |-> setpoint["o2"],
     argon_valve_on      |-> argon_valve_on,
     co2_ppm             |-> current_co2,
     co2_setpoint_ppm    |-> setpoint["co2"],
     vent_active         |-> vent_active,
     air_pump_on         |-> pump_is_on]

(* C1: once a loop's gate is closed (incubator_running or its enabled    *)
(* flag false), no relay of that loop is switched ON while the gate stays  *)
(* closed, whatever the interleaving of the loop's step with the manager.  *)
C1_NoSwitchOnWhileGateClosed ==
    [][\A l \in Loops :
         (~Active(l) /\ ~Active(l)') =>
            \A r \in RelaysOf(l) : ~relay[r] => ~relay'[r]]_vars

(* C2: once ControlManager.stop() has returned every relay is OFF and     *)
(* every task has terminated.                                              *)
C2_StopLeavesAllOff ==
    stop_pc = "returned" =>
        /\ \A r \in Relays : ~relay[r]
        /\ \A t \in Tasks : pc[t] = "done"

(* C3: a humidity, O2 or CO2 control step whose reading is 'not          *)
(* connected' ends with every relay of its loop OFF, whatever the state    *)
(* before.                                                                 *)
C3_NotConnectedTurnsOff ==
    [][/\ \A hw \in HumidityReadings \cup {None} :
            HumidityControlStep(hw) /\ current_humidity' = NC
                => ~relay'["humidifier_relay"]
       /\ O2ControlStep(NC) => ~relay'["argon_valve_relay"]
       /\ CO2ReadDone(None)
            => ~relay'["vent_relay"] /\ ~relay'["second_co2_relay"]]_vars

(* C4: a temperature control step in which neither RTD channel reads     *)
(* ends with the heater OFF and the PID reset, the heater having been ON   *)
(* or OFF before.                                                          *)
C4_NoReadingHeaterOff ==
    [][\A fresh \in BOOLEAN :
         TemperatureControlStep(None, None, fresh) =>
            /\ ~relay'["heater_relay"]
            /\ ~heater_on'
            /\ pid' = PidReset]_vars

(* C5: a humidity control step whose DHT22 read fails (every retry       *)
(* failed, or the device is not initialised) ends with the humidifier OFF. *)
C5_FailedReadHumidifierOff ==
    [][\A hw \in HumidityReadings \cup {None} :
         HumidityControlStep(hw) /\ (hw = None \/ ~dht_device) =>
            ~relay'["humidifier_relay"] /\ ~humidifier_on']_vars

(* C6: the state a restart applies is, field for field, the last         *)
(* document whose save completed or the default state, wherever the        *)
(* process was killed.                                                     *)
C6_LoadIsLastSavedOrDefault ==
    [][Restart =>
         AppliedState' = last_saved \/ AppliedState' = DefaultState]_vars

(* C6 witness: the program is up again on a file that holds a strict,    *)
(* non-empty prefix of a document other than the default, and runs on the  *)
(* defaults.                                                               *)
C6_Witness ==
    /\ proc = "up"
    /\ state_file.exists
    /\ state_file.written > 0
    /\ state_file.written < NumKeys
    /\ state_file.doc # DefaultState
    /\ AppliedState = DefaultState

(* C7: every sample whose log_data call returned is among the rows       *)
(* get_data returns for a range covering it, and the rows come oldest      *)
(* first.                                                                  *)
C7_LoggedSamplesRetrieved ==
    db =>
      LET rows == GetData(None, None)
      IN  /\ \A ts \in returned : \E i \in 1..Len(rows) : rows[i] = ts
          /\ \A i, j \in 1..Len(rows) : i < j => rows[i] <= rows[j]

(* C8: when stop_incubator() returns, the relays of all five loops are   *)
(* OFF.                                                                    *)
C8_StopIncubatorAllOff ==
    [][StopIncubator => \A r \in Relays : ~relay'[r]]_vars

(* C9: when set_control_state(name, False) returns, the loop's enabled   *)
(* flag is false and all its relays are OFF.                               *)
C9_DisableForcesOff ==
    [][\A name \in Loops :
         SetControlState(name, FALSE) =>
            /\ ~enabled'[name]
            /\ \A r \in RelaysOf(name) : ~relay'[r]]_vars

(* C10: when the cancelled task of a loop is done, every relay of that   *)
(* loop is OFF.                                                            *)
C10_CancelledTaskRelaysOff ==
    [][\A l \in Loops :
         Cancelled(l) => \A r \in RelaysOf(l) : ~relay'[r]]_vars

(* C11: when a loop's task ends although neither stop nor cancel was     *)
(* asked of it (run() returning at once), that loop's relays are OFF and   *)
(* the status the manager reports is no longer the one it reported before. *)
C11_UnexpectedEndHandled ==
    [][\A l \in Loops :
         RunAlready(l) =>
            /\ \A r \in RelaysOf(l) : ~relay'[r]
            /\ GetStatus' # GetStatus]_vars

(* C12: update_setpoints opens the state file for writing exactly when   *)
(* some setpoint has another value after the call than before it.          *)
C12_SaveIffSetpointChanged ==
    [][\A input \in UpdateInputs :
         UpdateSetpoints(input) =>
            ((proc' = "saving") <=> (setpoint' # setpoint))]_vars

(* The domains of the humidity, O2 and CO2 setpoints; the temperature     *)
(* setpoint has a domain of its own (C14).                                 *)
InDomain(k, v) ==
    CASE k = "humidity"    -> 0 <= v /\ v <= 100
      [] k = "o2"          -> 0 <= v /\ v <= 100
      [] k = "co2"         -> 0 < v
      [] k = "temperature" -> TRUE

(* The key of the state document that holds a setpoint. *)
DocKey(k) ==
    CASE k = "temperature" -> "temp_setpoint"
      [] k = "humidity"    -> "humidity_setpoint"
      [] k = "o2"          -> "o2_setpoint"
      [] k = "co2"         -> "co2_setpoint"

(* The state file parses and every setpoint it holds is a number. *)
NumericFile(f) ==
    /\ f.exists
    /\ f.written = NumKeys
    /\ \A k \in SetpointKeys : DocKey(k) \in f.keys => f.doc[DocKey(k)] >= 0

(* C13: whatever update_setpoints calls and state-file loads have         *)
(* happened, the humidity and O2 setpoints lie in [0, 100] and the CO2     *)
(* setpoint is positive; a requested or loaded value outside its domain    *)
(* leaves that setpoint at its prior value (on a load, the value the loop  *)
(* was constructed with), and every other key of the same request or file  *)
(* takes its own value.                                                    *)
C13_SetpointsStayInDomain ==
    [][/\ \A k \in SetpointKeys :
            InDomain(k, setpoint[k]) /\ InDomain(k, setpoint'[k])
       /\ \A input \in UpdateInputs :
            UpdateSetpoints(input) =>
               \A k \in SetpointKeys :
                  setpoint'[k] =
                     IF input[k] # None /\ InDomain(k, input[k])
                     THEN input[k] ELSE setpoint[k]
       /\ Restart /\ NumericFile(state_file) =>
             \A k \in SetpointKeys :
                setpoint'[k] =
                   IF /\ DocKey(k) \in state_file.keys
                      /\ InDomain(k, state_file.doc[DocKey(k)])
                   THEN state_file.doc[DocKey(k)]
                   ELSE DefaultSetpoints[k]]_vars

(* C13 witness: the program loaded a file whose humidity, O2 and CO2      *)
(* setpoints were outside their domains, kept the O2 and CO2 values it was *)
(* constructed with while taking the file's temperature, and an            *)
(* update_setpoints call has since moved the humidity setpoint.            *)
C13_Witness ==
    /\ proc = "saving"
    /\ last_saved["humidity_setpoint"] = 101
    /\ last_saved["o2_setpoint"] = 101
    /\ last_saved["co2_setpoint"] = 0
    /\ setpoint = [temperature |-> 9000, humidity |-> 70,
                   o2 |-> DEFAULT_O2_SETPOINT, co2 |-> DEFAULT_CO2_SETPOINT]

(* C14: a temperature setpoint outside 0 to 80 degrees C, requested of    *)
(* update_setpoints or found in the state file, is rejected: the           *)
(* temperature loop keeps the setpoint it had (on a load, the one it was   *)
(* constructed with).                                                      *)
C14_TemperatureOutOfBoundsRejected ==
    [][/\ \A input \in UpdateInputs :
            /\ UpdateSetpoints(input)
            /\ input["temperature"] # None
            /\ ~(0 <= input["temperature"] /\ input["temperature"] <= 8000)
            => setpoint'["temperature"] = setpoint["temperature"]
       /\ /\ Restart
          /\ NumericFile(state_file)
          /\ "temp_setpoint" \in state_file.keys
          /\ ~(0 <= state_file.doc["temp_setpoint"]
               /\ state_file.doc["temp_setpoint"] <= 8000)
          => setpoint'["temperature"] = DEFAULT_TEMP_SETPOINT]_vars

(* C15: at every instant, during a save and after it, the state-file path *)
(* holds a complete document (the previous one or the new one), never an   *)
(* empty or truncated one.                                                 *)
C15_SaveIsAtomic ==
    state_file.exists =>
        /\ state_file.written = NumKeys
        /\ state_file.doc = last_saved

(* The ten persisted values as get_status reports them, under the keys of *)
(* the state document.                                                     *)
StatusDoc ==
    [k \in KeySet |->
        CASE k = "temp_setpoint"       -> GetStatus.temp_setpoint
          [] k = "humidity_setpoint"   -> GetStatus.humidity_setpoint
          [] k = "o2_setpoint"         -> GetStatus.o2_setpoint
          [] k = "co2_setpoint"        -> GetStatus.co2_setpoint_ppm
          [] k = "incubator_running"   -> GetStatus.incubator_running
          [] k = "temperature_enabled" -> GetStatus.temperature_enabled
          [] k = "humidity_enabled"    -> GetStatus.humidity_enabled
          [] k = "o2_enabled"          -> GetStatus.o2_enabled
          [] k = "co2_enabled"         -> GetStatus.co2_enabled
          [] k = "air_pump_enabled"    -> GetStatus.air_pump_enabled]

C17_UnparsableFileReplaced ==
    [][Restart /\ state_file.exists /\ state_file.written < NumKeys =>
          /\ AppliedState' = DefaultState
          /\ state_file'.exists
          /\ state_file'.written = NumKeys
          /\ state_file'.doc = DefaultState]_vars

C19_O2PulseCooldown ==
    [][\A v \in O2Readings \cup {NC} :
         O2ControlStep(v) /\ pc'["o2"] = "o2_pulse" =>
            /\ v > setpoint["o2"]
            /\ o2_pulse_age = None \/ o2_pulse_age >= O2_COOLDOWN_S]_vars

(* The CO2 step's test: at least 15 s between the last activation it      *)
(* knows of and its own start, or no activation yet.                       *)
CO2CooldownOver == co2_last_seen = None \/ co2_last_seen >= CO2_COOLDOWN_S

(* C20: a CO2 control step with a valid reading below the setpoint and    *)
(* the cooldown over switches primary ON, primary OFF, and after the       *)
(* delay secondary ON, secondary OFF, in that order, the two solenoids     *)
(* never ON together; a step with a reading at or above the setpoint, or   *)
(* inside the cooldown, switches no relay ON.                              *)
C20_CO2PulseSequence ==
    [][/\ \A v \in CO2Readings :
            /\ CO2ReadDone(v) /\ v < setpoint["co2"] /\ CO2CooldownOver
                  => /\ pc'["co2"] = "co2_pulse1"
                     /\ relay'["vent_relay"]
                     /\ ~relay'["second_co2_relay"]
            /\ CO2ReadDone(v) /\ ~(v < setpoint["co2"] /\ CO2CooldownOver)
                  => \A r \in RelaysOf("co2") : relay'[r] => relay[r]
       /\ CO2PrimaryOff
            => /\ pc'["co2"] = "co2_gap"
               /\ ~relay'["vent_relay"]
               /\ ~relay'["second_co2_relay"]
       /\ CO2SecondaryOn
            => /\ pc'["co2"] = "co2_pulse2"
               /\ ~relay'["vent_relay"]
               /\ relay'["second_co2_relay"]
       /\ CO2SecondaryOff
            => /\ pc'["co2"] = "wait"
               /\ ~relay'["vent_relay"]
               /\ ~relay'["second_co2_relay"]]_vars

(* C21: _parse_ppm returns P * M for an ASCII frame carrying the ppm P as *)
(* five zero-padded digits under the stored multiplier M, returns          *)
(* (byte3 << 8) | byte4 for a 7-byte frame starting with 0xFE whatever M   *)
(* is, and raises a parse error for a frame without digits.                *)
C21_ParsePpmScales ==
    /\ \A p \in PpmValues :
         sensor_call.raw = AsciiFrame(p)
            => sensor_call.result = p * sensor_call.multiplier
    /\ \A high \in FrameBytes, low \in FrameBytes, fill \in {0, 49} :
         sensor_call.raw = BinaryFrame(high, low, fill)
            => sensor_call.result = high * 256 + low
    /\ sensor_call.raw \in NoDigitFrames => sensor_call.result = ParseError

C21_Witness ==
    /\ sensor_call.raw = AsciiFrame(473)
    /\ sensor_call.multiplier = 10
    /\ sensor_call.result = 4730

(* C30: opening the connection against a sensor that answers the          *)
(* multiplier query with the digits of M stores M (1 for a reported 0),    *)
(* the polling-mode command being written after the query.                 *)
C30_MultiplierStored ==
    [][\A m \in Multipliers \cup {0} :
          SensorOpen(MultiplierReply(m))
             => /\ sensor_multiplier' = (IF m = 0 THEN 1 ELSE m)
                /\ sensor_sent' = <<".", "K 2">>]_vars

(* C22: in a humidity control step with the gate open and a valid         *)
(* reading, the humidifier goes from OFF to ON only on a reading at or     *)
(* below setpoint - H/2, from ON to OFF only on a reading at or above      *)
(* setpoint + H/2, and a reading strictly between the two changes nothing. *)
C22_HumidifierHysteresis ==
    [][\A hw \in HumidityReadings :
          HumidityControlStep(hw) /\ current_humidity' # NC
             => LET reading == current_humidity'
                    low == setpoint["humidity"] - HUMIDITY_HYSTERESIS \div 2
                    high == setpoint["humidity"] + HUMIDITY_HYSTERESIS \div 2
                    was == relay["humidifier_relay"]
                    is == relay'["humidifier_relay"]
                IN  /\ ~was /\ is => reading <= low
                    /\ was /\ ~is => reading >= high
                    /\ ~humidifier_on /\ humidifier_on' => reading <= low
                    /\ humidifier_on /\ ~humidifier_on' => reading >= high
                    /\ low < reading /\ reading < high
                          => is = was /\ humidifier_on' = humidifier_on]_vars

C22_Witness ==
    /\ pc["humidity"] = "wait"
    /\ current_humidity = setpoint["humidity"] - HUMIDITY_HYSTERESIS \div 2
    /\ humidifier_on
    /\ relay["humidifier_relay"]

(* C23: whenever a control step or a status read can run, the humidity    *)
(* loop's thresholds are setpoint - H/2 and setpoint + H/2 of the current  *)
(* setpoint, setpoint requests from another thread included.               *)
C23_ThresholdsFollowSetpoint ==
    thresholds = [on  |-> setpoint["humidity"] - HUMIDITY_HYSTERESIS \div 2,
                  off |-> setpoint["humidity"] + HUMIDITY_HYSTERESIS \div 2]

(* C24: a temperature control step with the gate open, both channels      *)
(* valid and a PID of P > 0, I = D = 0 ends with the heater commanded ON   *)
(* if the control temperature is below the setpoint and OFF if above.      *)
C24_ProportionalHeater ==
    [][\A s1 \in TempReadings, s2 \in TempReadings, fresh \in BOOLEAN :
          /\ TemperatureControlStep(s1, s2, fresh)
          /\ tunings.Kp > 0 /\ tunings.Ki_inv = None /\ tunings.Kd = 0
          => /\ ControlTemp(s1, s2) < setpoint["temperature"] => heater_on'
             /\ ControlTemp(s1, s2) > setpoint["temperature"] => ~heater_on']_vars

(* C25: the PID is fed the mean of the two channels when both are valid   *)
(* and the valid channel's value when one is; the step with one valid      *)
(* channel runs the PID and drives the heater.                             *)
C25_ControlTemperature ==
    [][\A s1 \in TempReadings \cup {None}, s2 \in TempReadings \cup {None} :
          /\ TemperatureControlStep(s1, s2, TRUE)
          /\ s1 # None \/ s2 # None
          => /\ ~temp_step_error'
             /\ pid'.last_input = IF s2 = None THEN s1
                                  ELSE IF s1 = None THEN s2
                                  ELSE (s1 + s2) \div 2
             /\ heater_on' = (pid'.last_output > OUTPUT_THRESHOLD)]_vars

(* C26: with the gate open the pump's ON phase ends between T_on and      *)
(* T_on plus one control interval after it began, its OFF phase between    *)
(* T_off and T_off plus one control interval.                              *)
C26_PumpPhases ==
    [][AirPumpControlStep
          => /\ pump_is_on /\ ~pump_is_on'
                => /\ cycle_age >= PUMP_ON_DURATION_S
                   /\ cycle_age <= PUMP_ON_DURATION_S + PUMP_CONTROL_INTERVAL_S
             /\ ~pump_is_on /\ pump_is_on'
                => /\ cycle_age >= PUMP_OFF_DURATION_S
                   /\ cycle_age <= PUMP_OFF_DURATION_S
                                      + PUMP_CONTROL_INTERVAL_S]_vars

(* C27: start_incubator and stop_incubator leave the state file alone,    *)
(* and a call of update_setpoints changes the incubator_running value of   *)
(* the file only if it changed a setpoint (set_control_state may always).  *)
C27_RunFlagPersistedBySavesOnly ==
    [][/\ StartIncubator \/ StopIncubator => state_file' = state_file
       /\ \A input \in UpdateInputs :
            /\ UpdateSetpoints(input)
            /\ state_file'.doc["incubator_running"]
                  # state_file.doc["incubator_running"]
            => setpoint' # setpoint]_vars

(* C28: an exception raised by a loop's control_step leaves the loop's    *)
(* task in its interval wait with the next step enabled, and an exception  *)
(* in a pass of the logging task leaves that task in its sleep; neither    *)
(* ends another task or the manager.                                       *)
C28_ExceptionsContained ==
    [][/\ \A s1 \in TempReadings \cup {None}, s2 \in TempReadings \cup {None},
            fresh \in BOOLEAN :
            /\ TemperatureControlStep(s1, s2, fresh)
            /\ s1 = None \/ s2 = None
            => /\ pc'["temperature"] = "wait"
               /\ AtLoopTop("temperature")'
               /\ \A t \in Tasks \ {"temperature"} : pc'[t] = pc[t]
               /\ manager_active' = manager_active
       /\ LogDataRaises
            => /\ pc'["logging"] = "log_sleep"
               /\ \A t \in Tasks \ {"logging"} : pc'[t] = pc[t]
               /\ manager_active' = manager_active]_vars

C28_Witness ==
    /\ temp_step_error
    /\ pc["temperature"] = "wait"
    /\ is_running["temperature"]
    /\ manager_active


(* C29: once stop() has been called on a loop whose run() task exists, the *)
(* task begins no further iteration and ends without being cancelled,      *)
(* wherever it was: from the entry of run(), from the gated sleep and from *)
(* the interval wait its next move is to return (a stop() met inside       *)
(* control_step lets the step finish and reach the interval wait).         *)
C29_StopEndsRun ==
    [][\A l \in StoppableLoops :
         stop_called[l] /\ pc[l] \in {"created", "gate_sleep", "wait"}
           => pc'[l] \in {pc[l], "done"}]_vars


(* C31: one call of read_ppm makes at most 3 read attempts and at most one *)
(* close-and-reopen of the serial connection, and a call whose attempts    *)
(* are used up without a value has ended by raising.                       *)
C31_ReadPpmBounded ==
    /\ sensor_call.attempt <= READ_ATTEMPTS
    /\ sensor_call.reopens <= 1
    /\ sensor_call.outcome = "running" => sensor_call.attempt < READ_ATTEMPTS


(* C32: whenever the air pump loop's gate closes, by                       *)
(* set_control_state('air_pump', False) or by stop_incubator, with the     *)
(* pump ON or OFF, the pump relay is OFF and the OFF phase timer has been  *)
(* restarted when the closing operation returns.                           *)
C32_PumpGateClosing ==
    [][Active("air_pump") /\ ~Active("air_pump")'
         => /\ ~relay'["motor"]
            /\ ~pump_is_on'
            /\ cycle_age' = 0]_vars


(* C33: a sensor read in another loop that outlasts a control interval     *)
(* (the DHT22 retry sequence of the humidity step) does not delay the air  *)
(* pump loop's next tick: each tick after the first starts no later than   *)
(* one control interval after the tick before it.                          *)
C33_SlowReadDelaysNoTick ==
    [][AirPumpControlStep /\ pc["air_pump"] = "wait"
          => tick_age <= PUMP_CONTROL_INTERVAL_S]_vars


(* C34: whenever no O2 control step is in progress, argon_valve_on in the  *)
(* status equals the last command sent to the argon relay; it is false     *)
(* once a pulse has completed and the relay has been switched OFF.         *)
C34_ArgonStatusMatchesRelay ==
    pc["o2"] # "o2_pulse" /\ device["argon_valve_relay"]
       => GetStatus.argon_valve_on = relay["argon_valve_relay"]


(* C35: whenever no control step is in progress, each loop's flag of the   *)
(* commanded state equals the last command sent to its relay: _heater_on   *)
(* for the heater, _humidifier_on for the humidifier, pump_is_on for the   *)
(* pump, after any sequence of manager operations.                         *)
C35_FlagsMatchRelays ==
    /\ device["heater_relay"] => heater_on = relay["heater_relay"]
    /\ device["humidifier_relay"] => humidifier_on = relay["humidifier_relay"]
    /\ pump_is_on = relay["motor"]


(* C36: any two switch-ons of the primary CO2 solenoid are at least 15 s   *)
(* apart in actual switch-on time, whatever the durations of the sensor    *)
(* reads that precede them.                                                *)
C36_PrimarySwitchOnsApart ==
    [][~relay["vent_relay"] /\ relay'["vent_relay"]
          => co2_pulse_age = None \/ co2_pulse_age >= CO2_COOLDOWN_S]_vars


(* C37: after a restart the loaded incubator_running is the run flag as    *)
(* the most recent completed save wrote it (the default when nothing was   *)
(* ever saved), whatever start_incubator and stop_incubator did after that *)
(* save; no other value is loaded.                                         *)
C37_LoadedRunFlag ==
    [][Restart => incubator_running' = last_saved["incubator_running"]]_vars


(* The positions inside the while loop of run(). *)
InBody == {"gate_sleep", "wait", "o2_pulse"}

(* C38: for each loop at most one execution of the body of run() is active *)
(* at any time, after any sequence of run() and stop() calls: a run()      *)
(* started after stop() is never inside the loop together with an earlier  *)
(* body that has not yet exited.                                           *)
C38_OneBodyPerLoop ==
    \A l \in StoppableLoops :
        focus = l => ~(pc[l] \in InBody /\ other_pc \in InBody)


(* C39: closing and reopening a loop's gate does not reset the pulse       *)
(* cooldown.  When the O2 loop opens the argon valve or the CO2 loop the   *)
(* primary solenoid and the loop has pulsed before, the earlier pulse is   *)
(* on record and was recorded at least the cooldown earlier (60 s for O2,  *)
(* 15 s for CO2), whatever disabling, enabling, stop_incubator and         *)
(* start_incubator came in between.                                        *)
C39_CooldownSurvivesGate ==
    [][/\ pc["o2"] # "o2_pulse" /\ pc'["o2"] = "o2_pulse"
          => \/ o2_pulse_age = None
             \/ o2_last_age # None /\ o2_last_age >= O2_COOLDOWN_S
       /\ ~relay["vent_relay"] /\ relay'["vent_relay"]
          => \/ co2_pulse_age = None
             \/ co2_last_age # None /\ co2_last_age >= CO2_COOLDOWN_S]_vars

(* C39 witness: the O2 loop's gate is open again after a closing that     *)
(* cleared _argon_valve_on (the pulse leaves it set), the last reading is  *)
(* above the setpoint, the valve is closed and a pulse is on record less   *)
(* than 60 s back.                                                         *)
C39_Witness ==
    /\ focus = "o2"
    /\ pc["o2"] = "wait"
    /\ Active("o2")
    /\ current_value # NC
    /\ current_value > setpoint["o2"]
    /\ ~argon_valve_on
    /\ ~relay["argon_valve_relay"]
    /\ o2_last_age # None
    /\ o2_last_age > 0
    /\ o2_last_age < O2_COOLDOWN_S


(* C40: accesses to the state file are mutually exclusive, so the file     *)
(* always holds exactly one caller's complete document: whenever a step    *)
(* changes the file and leaves no _save_state in progress, the file holds  *)
(* a complete document and nothing behind it.                              *)
C40_FileIsOneDocument ==
    [][/\ state_file' # state_file
       /\ proc' = "up"
       /\ ~in_save'.second_open
       => /\ state_file'.exists
          /\ state_file'.written = NumKeys
          /\ state_file'.excess = 0]_vars

====
